---- MODULE Spec2Model ----
(***************************************************************************)
(* The client-side caches of services/openaiService.ts: the TTS audio      *)
(* cache and the word annotation cache, each a memory layer (a Map) in     *)
(* front of localStorage records enumerated by a persisted FIFO index.     *)
(*                                                                         *)
(* Strings that the code inspects character by character (texts, voices,   *)
(* words) are sequences of one-character strings; strings that are only    *)
(* compared or concatenated (storage keys, Map keys) are TLA+ strings.     *)
(* Date.now() timestamps are written by the code but never read by it and  *)
(* are left out of the stored records.                                     *)
(***************************************************************************)
EXTENDS Integers, Sequences, FiniteSets, TLC

(***************************************************************************)
(* Characters                                                              *)
(***************************************************************************)
Lower == <<"a","b","c","d","e","f","g","h","i","j","k","l","m",
           "n","o","p","q","r","s","t","u","v","w","x","y","z">>

Upper == <<"A","B","C","D","E","F","G","H","I","J","K","L","M",
           "N","O","P","Q","R","S","T","U","V","W","X","Y","Z">>

Digits == <<"0","1","2","3","4","5","6","7","8","9">>

IndexIn(c, s) == CHOOSE i \in 1..Len(s) : s[i] = c

InSeq(c, s) == \E i \in 1..Len(s) : s[i] = c

\* String.prototype.charCodeAt for the characters the model uses
charCodeAt(c) ==
  IF InSeq(c, Lower) THEN 96 + IndexIn(c, Lower)
  ELSE IF InSeq(c, Upper) THEN 64 + IndexIn(c, Upper)
  ELSE IF InSeq(c, Digits) THEN 47 + IndexIn(c, Digits)
  ELSE IF c = "_" THEN 95
  ELSE 32

\* String.prototype.toLowerCase, one character
lowerChar(c) == IF InSeq(c, Upper) THEN Lower[IndexIn(c, Upper)] ELSE c

toLowerCase(s) == [i \in 1..Len(s) |-> lowerChar(s[i])]

RECURSIVE trimStart(_)
trimStart(s) ==
  IF s # <<>> /\ Head(s) = " " THEN trimStart(Tail(s)) ELSE s

RECURSIVE trimEnd(_)
trimEnd(s) ==
  IF s # <<>> /\ s[Len(s)] = " " THEN trimEnd(SubSeq(s, 1, Len(s) - 1)) ELSE s

\* String.prototype.trim
trim(s) == trimEnd(trimStart(s))

\* the JavaScript string made of the characters of s
RECURSIVE Str(_)
Str(s) == IF s = <<>> THEN "" ELSE Head(s) \o Str(Tail(s))

(***************************************************************************)
(* 32-bit hash of getCacheKey.  A 32-bit word is a pair <<hi, lo>> of      *)
(* 16-bit halves, so that no intermediate value leaves the integer range   *)
(* of the model checker.                                                   *)
(***************************************************************************)
Half == 65536

\* hash << 5: the low 32 bits of the word shifted left by five
shiftLeft5(h) ==
  LET lo == h[2] * 32
      hi == h[1] * 32 + (lo \div Half)
  IN  <<hi % Half, lo % Half>>

\* hash = ((hash << 5) + hash) + char, the multiplier 33 in place of 31
hashStepPlus(h, code) ==
  LET s  == shiftLeft5(h)
      lo == s[2] + h[2] + code
      hi == s[1] + h[1] + (lo \div Half)
  IN  <<hi % Half, lo % Half>>

\* hash = ((hash << 5) - hash) + char; hash = hash & hash
\* the difference is taken half by half with a borrow, and hash & hash
\* keeps its low 32 bits
hashStep(h, code) ==
  LET s      == shiftLeft5(h)
      lo     == s[2] - h[2] + code + Half
      borrow == (lo \div Half) - 1
      hi     == s[1] - h[1] + borrow + 2 * Half
  IN  <<hi % Half, lo % Half>>

RECURSIVE hashFold(_, _)
hashFold(h, s) ==
  IF s = <<>> THEN h ELSE hashFold(hashStep(h, charCodeAt(Head(s))), Tail(s))

\* the sign bit of the int32 the word stands for
isNegative(h) == h[1] >= 32768

\* Math.abs of the int32: two's complement negation when negative
\* (Math.abs(-2^31) is 2^31, which the pair <<32768, 0>> represents)
mathAbs(h) ==
  IF ~isNegative(h) THEN h
  ELSE IF h[2] = 0 THEN <<(Half - h[1]) % Half, 0>>
  ELSE <<Half - 1 - h[1], Half - h[2]>>

Digits36 == Digits \o Lower

\* Number.prototype.toString(36) of a non-negative 32-bit quantity
RECURSIVE toString36(_)
toString36(n) ==
  LET mid == (n[1] % 36) * Half + n[2]
      q   == <<n[1] \div 36, mid \div 36>>
      d   == Digits36[(mid % 36) + 1]
  IN  IF q = <<0, 0>> THEN d ELSE toString36(q) \o d

(***************************************************************************)
(* Base64 (btoa / atob) over byte sequences                                *)
(***************************************************************************)
Base64Chars == Upper \o Lower \o Digits \o <<"+", "/">>

\* arrayBufferToBase64: btoa of the binary string of the buffer's bytes
RECURSIVE arrayBufferToBase64(_)
arrayBufferToBase64(bytes) ==
  LET n  == Len(bytes)
      b0 == bytes[1]
      b1 == IF n >= 2 THEN bytes[2] ELSE 0
      b2 == IF n >= 3 THEN bytes[3] ELSE 0
      c1 == Base64Chars[(b0 \div 4) + 1]
      c2 == Base64Chars[((b0 % 4) * 16 + (b1 \div 16)) + 1]
      c3 == Base64Chars[((b1 % 16) * 4 + (b2 \div 64)) + 1]
      c4 == Base64Chars[(b2 % 64) + 1]
  IN  IF n = 0 THEN <<>>
      ELSE IF n = 1 THEN <<c1, c2, "=", "=">>
      ELSE IF n = 2 THEN <<c1, c2, c3, "=">>
      ELSE <<c1, c2, c3, c4>> \o arrayBufferToBase64(SubSeq(bytes, 4, n))

sextet(c) == IndexIn(c, Base64Chars) - 1

\* base64ToArrayBuffer: the bytes of atob(base64), for well-formed input
RECURSIVE base64ToArrayBuffer(_)
base64ToArrayBuffer(b64) ==
  LET s1 == sextet(b64[1])
      s2 == sextet(b64[2])
      s3 == IF b64[3] = "=" THEN 0 ELSE sextet(b64[3])
      s4 == IF b64[4] = "=" THEN 0 ELSE sextet(b64[4])
      y0 == s1 * 4 + (s2 \div 16)
      y1 == (s2 % 16) * 16 + (s3 \div 4)
      y2 == (s3 % 4) * 64 + s4
  IN  IF b64 = <<>> THEN <<>>
      ELSE IF b64[3] = "=" THEN <<y0>>
      ELSE IF b64[4] = "=" THEN <<y0, y1>>
      ELSE <<y0, y1, y2>> \o base64ToArrayBuffer(SubSeq(b64, 5, Len(b64)))

(***************************************************************************)
(* Keys                                                                    *)
(***************************************************************************)
TTS_CACHE_PREFIX == "vocabflow_openai_tts_"

TTS_CACHE_INDEX_KEY == "vocabflow_openai_tts_index"

ANNOTATION_CACHE_PREFIX == "vocabflow_openai_annotation_"

ANNOTATION_CACHE_INDEX_KEY == "vocabflow_openai_annotation_index"

\* Capacities.  The source sets 20 and 500; the model runs the same code
\* with small capacities so that the index fills and evicts.
MAX_TTS_CACHE_SIZE == 2

MAX_ANNOTATION_CACHE_SIZE == 2

\* getCacheKey(text): prefix + base-36 absolute hash of the trimmed text
getCacheKey(text) ==
  TTS_CACHE_PREFIX \o toString36(mathAbs(hashFold(<<0, 0>>, trim(text))))

\* const cacheKey = `${text}_${voice}` in fetchTTSAudio
ttsLogicalKey(text, voice) == text \o <<"_">> \o voice

\* getAnnotationCacheKey(word)
getAnnotationCacheKey(word) ==
  ANNOTATION_CACHE_PREFIX \o Str(trim(toLowerCase(word)))

\* the word as typed, trimmed only
wordKeyAsTyped(word) ==
  Str(trim(word))

\* const wordKey = word.toLowerCase().trim()
wordKeyOf(word) ==
  Str(trim(toLowerCase(word)))

\* const textKey = text.trim()
textKeyOf(text) == Str(trim(text))

(***************************************************************************)
(* Inputs                                                                  *)
(***************************************************************************)
\* Sentences.  "bjsvrvc" is a sentence whose keys for the voices onyx and
\* nova have the same hash; the key of "hzzxjar" with the voice alloy
\* hashes to the base-36 numeral "index".
Texts ==
  { <<" ","h","e","l","l","o">>,
    <<"b","j","s","v","r","v","c">>, <<"h","z","z","x","j","a","r">> }

\* OpenAIVoice identifiers
Voices ==
  { <<"a","l","l","o","y">>, <<"e","c","h","o">>,
    <<"o","n","y","x">>, <<"n","o","v","a">> }

\* the (text, voice) pairs that are requested
TTSRequests ==
  { r \in [text : Texts, voice : Voices] :
      \/ r.text[Len(r.text)] = "o" /\ r.voice[1] = "a"
      \/ r.text[1] = "b" /\ r.voice[1] \in {"o", "n"}
      \/ r.text[1] = "h" /\ r.text[2] = "z" /\ r.voice[1] = "a" }

\* the argument getFromLocalStorage / saveToLocalStorage receive
TTSKeys == { ttsLogicalKey(r.text, r.voice) : r \in TTSRequests }

\* TTSAudioResult values a provider may return
Clip1 == [data |-> <<73, 68, 51>>, mimeType |-> "audio/mpeg"]

Clip2 == [data |-> <<255, 251>>, mimeType |-> "audio/mpeg"]

AudioResults == {Clip1, Clip2}

\* the audio the provider may answer a request with: either clip for
\* "hello", one fixed clip for each of the other requests
ProviderAudio ==
  [k \in TTSKeys |->
     IF textKeyOf(k) = "hello_alloy" THEN AudioResults
     ELSE IF textKeyOf(k) = "bjsvrvc_onyx" THEN {Clip1}
     ELSE {Clip2}]

Words ==
  { <<" ","C","a","t">>, <<"d","o","g">>,
    <<"s","a","t">>, <<"I","n","d","e","x">> }

\* Annotation values a provider may return
Note1 == [ipa |-> "/kat/", definition |-> "mao"]

Note2 == [ipa |-> "/dog/", definition |-> "gou"]

Annotations == {Note1, Note2}

\* Spellings of the words "cat", "dog" and "sat" as a reader clicks them in
\* different sentences
SpellingWords ==
  { <<" ","C","a","t">>, <<"c","a","t">>, <<"C","A","T"," ">>,
    <<"d","o","g">>, <<"D","o","g">>, <<"s","a","t">> }

\* the annotations the provider may answer a word with: either one for
\* "cat", one fixed annotation for each of the other words
ProviderAnnotation ==
  [w \in Words \cup SpellingWords |->
     IF wordKeyOf(w) = "cat" THEN Annotations
     ELSE IF wordKeyOf(w) = "dog" THEN {Note1}
     ELSE {Note2}]

\* the key derivations and encodings of the inputs, tabulated
CacheKeyOf == [k \in TTSKeys |-> getCacheKey(k)]

TextKeyOf == [k \in TTSKeys |-> textKeyOf(k)]

Base64Of == [r \in AudioResults |-> arrayBufferToBase64(r.data)]

BytesOf ==
  [b \in { Base64Of[r] : r \in AudioResults } |-> base64ToArrayBuffer(b)]

AnnotationKeyOf ==
  [w \in Words \cup SpellingWords |-> getAnnotationCacheKey(w)]

WordKeyOf ==
  [w \in Words \cup SpellingWords |-> wordKeyOf(w)]

\* what a localStorage call does in one operation:
\*   none        every call succeeds
\*   entryQuota  setItem of the record throws QuotaExceededError
\*   indexQuota  setItem of the record succeeds, setItem of the index throws
\*   denied      every localStorage call throws (storage blocked)
PutFaults == {"none", "entryQuota", "indexQuota", "denied"}

AccessFaults == {"none", "denied"}

(***************************************************************************)
(* State                                                                   *)
(***************************************************************************)
VARIABLES
  localStorage,           \* key -> parsed JSON value of the stored string
  memoryCache,            \* Map<string, TTSAudioResult>
  annotationMemoryCache,  \* Map<string, Annotation>
  thrown,                 \* the last call threw to its caller
  scope,                  \* the cache this behaviour exercises
  last,                   \* the last operation, when it was a put
  pending,                \* values whose durable write failed, by logical key
  trace,                  \* the operations of a scenario, in order
  awaiting,               \* provider requests in flight: fetch argument -> count
  served,                 \* logical keys a fetch of this session answered
  geminiMemoryCache,      \* memoryCache of the Gemini service
  geminiAnnotationMemoryCache,  \* annotationMemoryCache of the Gemini service
  marks,                  \* markWordCorrect calls per ledger entry
  tabs                    \* the ledger call each of two tabs is in the middle of

vars == <<localStorage, memoryCache, annotationMemoryCache, thrown,
          scope, last, pending, trace, awaiting, served,
          geminiMemoryCache, geminiAnnotationMemoryCache, marks, tabs>>

\* the state that the cache operations of openaiService, called one at a
\* time, leave alone
extras == <<awaiting, served, geminiMemoryCache, geminiAnnotationMemoryCache,
            marks, tabs>>

\* JSON values: JSON.parse(JSON.stringify(x)) of the plain data the code
\* stores gives x back; the tag tells an array from an object
JsonArray(items) == [kind |-> "array", value |-> items]

JsonObject(fields) == [kind |-> "object", value |-> fields]

EmptyMap == [k \in {} |-> 0]

\* two browser tabs on the same origin share localStorage
Tabs == {1, 2}

\* a tab that is not inside a ledger call
Idle == [pc |-> "idle"]

\* Map.prototype.set / localStorage.setItem
MapSet(m, k, v) == [x \in DOMAIN m \cup {k} |-> IF x = k THEN v ELSE m[x]]

\* Map.prototype.delete / localStorage.removeItem, for a set of keys
MapDelete(m, ks) == [x \in DOMAIN m \ ks |-> m[x]]

SeqRange(s) == { s[i] : i \in 1..Len(s) }

Init ==
  /\ localStorage = EmptyMap
  /\ memoryCache = EmptyMap
  /\ annotationMemoryCache = EmptyMap
  /\ thrown = FALSE
  /\ scope \in {"tts", "annotation", "ledger"}
  /\ last = [op |-> "none"]
  /\ pending = EmptyMap
  /\ trace = <<>>
  /\ awaiting = EmptyMap
  /\ served = {}
  /\ geminiMemoryCache = EmptyMap
  /\ geminiAnnotationMemoryCache = EmptyMap
  /\ marks = EmptyMap
  /\ tabs = [t \in Tabs |-> Idle]

(***************************************************************************)
(* TTS audio cache                                                         *)
(***************************************************************************)
\* getCacheIndex(): the parsed index, [] when absent or when getItem throws
getCacheIndex(fault) ==
  IF fault = "denied" \/ TTS_CACHE_INDEX_KEY \notin DOMAIN localStorage
  THEN JsonArray(<<>>)
  ELSE localStorage[TTS_CACHE_INDEX_KEY]

\* ttsPlan with the eviction loop running while index.length > MAX
ttsPlanStrictBound(text, fault) ==
  LET textKey  == TextKeyOf[text]
      index    == getCacheIndex(fault)
      isArray  == index.kind = "array"
      items    == IF isArray THEN index.value ELSE <<>>
      filtered == SelectSeq(items, LAMBDA e : e.text # textKey)
      nEvict   == IF Len(filtered) > MAX_TTS_CACHE_SIZE
                  THEN Len(filtered) - MAX_TTS_CACHE_SIZE ELSE 0
  IN  [ typeError |-> ~isArray,
        evicted   |-> SubSeq(filtered, 1, nEvict),
        kept      |-> SubSeq(filtered, nEvict + 1, Len(filtered)) ]

\* the local computation of saveToLocalStorage's try block
ttsPlan(text, fault) ==
  LET textKey  == TextKeyOf[text]
      index    == getCacheIndex(fault)
      isArray  == index.kind = "array"
      items    == IF isArray THEN index.value ELSE <<>>
      filtered == SelectSeq(items, LAMBDA e : e.text # textKey)
      nEvict   == IF Len(filtered) >= MAX_TTS_CACHE_SIZE
                  THEN Len(filtered) - MAX_TTS_CACHE_SIZE + 1 ELSE 0
  IN  [ typeError |-> ~isArray,
        evicted   |-> SubSeq(filtered, 1, nEvict),
        kept      |-> SubSeq(filtered, nEvict + 1, Len(filtered)) ]

\* saveToLocalStorage(text, result)
saveToLocalStorage(text, result, fault) ==
  LET cacheKey == CacheKeyOf[text]
      textKey  == TextKeyOf[text]
      plan     == ttsPlan(text, fault)
      entry    == JsonObject([base64 |-> Base64Of[result],
                              mimeType |-> result.mimeType])
      newIndex == Append(plan.kept, [key |-> cacheKey, text |-> textKey])
      mem1     == MapSet(memoryCache, textKey, result)
      mem2     == MapDelete(mem1, { e.text : e \in SeqRange(plan.evicted) })
      ls1      == MapDelete(localStorage, { e.key : e \in SeqRange(plan.evicted) })
      ls2      == MapSet(ls1, cacheKey, entry)
      ls3      == MapSet(ls2, TTS_CACHE_INDEX_KEY, JsonArray(newIndex))
  IN  /\ scope = "tts"
      /\ memoryCache' = IF plan.typeError THEN mem1 ELSE mem2
      /\ localStorage' =
           IF plan.typeError THEN localStorage
           ELSE IF fault \in {"entryQuota", "denied"} THEN ls1
           ELSE IF fault = "indexQuota" THEN ls2
           ELSE ls3
      /\ thrown' = FALSE
      /\ UNCHANGED <<annotationMemoryCache, scope>>

\* getFromLocalStorageResult without the memoryCache.has(text.trim()) branch
getFromLocalStorageResultDurableOnly(text, fault) ==
  LET cacheKey == CacheKeyOf[text]
  IN  IF fault = "denied" \/ cacheKey \notin DOMAIN localStorage THEN <<>>
      ELSE LET stored == localStorage[cacheKey]
           IN  IF stored.kind = "object" /\ "base64" \in DOMAIN stored.value
               THEN <<[data |-> BytesOf[stored.value.base64],
                       mimeType |-> stored.value.mimeType]>>
               ELSE <<>>

\* what getFromLocalStorage(text) returns: <<result>> or <<>> for null
getFromLocalStorageResult(text, fault) ==
  LET cacheKey == CacheKeyOf[text]
      textKey  == TextKeyOf[text]
  IN  IF textKey \in DOMAIN memoryCache THEN <<memoryCache[textKey]>>
      ELSE IF fault = "denied" \/ cacheKey \notin DOMAIN localStorage THEN <<>>
      ELSE LET stored == localStorage[cacheKey]
           IN  IF stored.kind = "object" /\ "base64" \in DOMAIN stored.value
               THEN <<[data |-> BytesOf[stored.value.base64],
                       mimeType |-> stored.value.mimeType]>>
               ELSE <<>>

\* getFromLocalStorage that moves the entry it serves to the end of the index
getFromLocalStorageTouch(text, fault) ==
  LET textKey == TextKeyOf[text]
      result  == getFromLocalStorageResult(text, fault)
      index   == getCacheIndex(fault)
      items   == IF index.kind = "array" THEN index.value ELSE <<>>
      mine    == SelectSeq(items, LAMBDA e : e.text = textKey)
      others  == SelectSeq(items, LAMBDA e : e.text # textKey)
  IN  /\ scope = "tts"
      /\ memoryCache' = IF result # <<>> /\ textKey \notin DOMAIN memoryCache
                        THEN MapSet(memoryCache, textKey, result[1])
                        ELSE memoryCache
      /\ localStorage' =
           IF result # <<>> /\ mine # <<>>
           THEN MapSet(localStorage, TTS_CACHE_INDEX_KEY, JsonArray(others \o mine))
           ELSE localStorage
      /\ thrown' = FALSE
      /\ UNCHANGED <<annotationMemoryCache, scope>>

\* getFromLocalStorage(text)
getFromLocalStorage(text, fault) ==
  LET textKey == TextKeyOf[text]
      result  == getFromLocalStorageResult(text, fault)
  IN  /\ scope = "tts"
      /\ memoryCache' = IF result # <<>> /\ textKey \notin DOMAIN memoryCache
                        THEN MapSet(memoryCache, textKey, result[1])
                        ELSE memoryCache
      /\ thrown' = FALSE
      /\ UNCHANGED <<localStorage, annotationMemoryCache, scope>>

\* clearTTSCache that empties the whole of localStorage (localStorage.clear())
clearTTSCacheWholeStore(fault) ==
  /\ scope = "tts"
  /\ memoryCache' = EmptyMap
  /\ IF fault = "denied"
     THEN /\ thrown' = TRUE
          /\ UNCHANGED localStorage
     ELSE /\ thrown' = FALSE
          /\ localStorage' = EmptyMap
  /\ UNCHANGED <<annotationMemoryCache, scope>>

\* clearTTSCache()
clearTTSCache(fault) ==
  LET index == getCacheIndex(fault)
  IN  /\ scope = "tts"
      /\ memoryCache' = EmptyMap
      /\ IF index.kind # "array" \/ fault = "denied"
         THEN /\ thrown' = TRUE
              /\ UNCHANGED localStorage
         ELSE /\ thrown' = FALSE
              /\ localStorage' =
                   MapDelete(localStorage,
                             { e.key : e \in SeqRange(index.value) }
                               \cup {TTS_CACHE_INDEX_KEY})
      /\ UNCHANGED <<annotationMemoryCache, scope>>

(***************************************************************************)
(* Word annotation cache                                                   *)
(***************************************************************************)
\* getAnnotationCacheIndex()
getAnnotationCacheIndex(fault) ==
  IF fault = "denied" \/ ANNOTATION_CACHE_INDEX_KEY \notin DOMAIN localStorage
  THEN JsonArray(<<>>)
  ELSE localStorage[ANNOTATION_CACHE_INDEX_KEY]

\* annotationPlan without index.filter(e => e.word !== wordKey)
annotationPlanNoFilter(word, fault) ==
  LET index    == getAnnotationCacheIndex(fault)
      isArray  == index.kind = "array"
      items    == IF isArray THEN index.value ELSE <<>>
      nEvict   == IF Len(items) >= MAX_ANNOTATION_CACHE_SIZE
                  THEN Len(items) - MAX_ANNOTATION_CACHE_SIZE + 1 ELSE 0
  IN  [ typeError |-> ~isArray,
        evicted   |-> SubSeq(items, 1, nEvict),
        kept      |-> SubSeq(items, nEvict + 1, Len(items)) ]

\* the local computation of saveAnnotationToCache's try block
annotationPlan(word, fault) ==
  LET wordKey  == WordKeyOf[word]
      index    == getAnnotationCacheIndex(fault)
      isArray  == index.kind = "array"
      items    == IF isArray THEN index.value ELSE <<>>
      filtered == SelectSeq(items, LAMBDA e : e.word # wordKey)
      nEvict   == IF Len(filtered) >= MAX_ANNOTATION_CACHE_SIZE
                  THEN Len(filtered) - MAX_ANNOTATION_CACHE_SIZE + 1 ELSE 0
  IN  [ typeError |-> ~isArray,
        evicted   |-> SubSeq(filtered, 1, nEvict),
        kept      |-> SubSeq(filtered, nEvict + 1, Len(filtered)) ]

\* saveAnnotationToCache with annotationMemoryCache.set moved to the end of
\* the try block, after the durable writes
saveAnnotationToCacheDurableFirst(word, annotation, fault) ==
  LET cacheKey == AnnotationKeyOf[word]
      wordKey  == WordKeyOf[word]
      index    == getAnnotationCacheIndex(fault)
      isArray  == index.kind = "array"
      items    == IF isArray THEN index.value ELSE <<>>
      filtered == SelectSeq(items, LAMBDA e : e.word # wordKey)
      nEvict   == IF Len(filtered) >= MAX_ANNOTATION_CACHE_SIZE
                  THEN Len(filtered) - MAX_ANNOTATION_CACHE_SIZE + 1 ELSE 0
      evicted  == SubSeq(filtered, 1, nEvict)
      kept     == SubSeq(filtered, nEvict + 1, Len(filtered))
      newIndex == Append(kept, [key |-> cacheKey, word |-> wordKey])
      mem1     == MapDelete(annotationMemoryCache, { e.word : e \in SeqRange(evicted) })
      mem2     == MapSet(mem1, wordKey, JsonObject(annotation))
      ls1      == MapDelete(localStorage, { e.key : e \in SeqRange(evicted) })
      ls2      == MapSet(ls1, cacheKey, JsonObject(annotation))
      ls3      == MapSet(ls2, ANNOTATION_CACHE_INDEX_KEY, JsonArray(newIndex))
  IN  /\ scope = "annotation"
      /\ annotationMemoryCache' =
           IF ~isArray THEN annotationMemoryCache
           ELSE IF fault \in {"entryQuota", "denied"} THEN mem1
           ELSE mem2
      /\ localStorage' =
           IF ~isArray THEN localStorage
           ELSE IF fault \in {"entryQuota", "denied"} THEN ls1
           ELSE IF fault = "indexQuota" THEN ls2
           ELSE ls3
      /\ thrown' = FALSE
      /\ UNCHANGED <<memoryCache, scope>>

\* saveAnnotationToCache(word, annotation)
saveAnnotationToCache(word, annotation, fault) ==
  LET cacheKey == AnnotationKeyOf[word]
      wordKey  == WordKeyOf[word]
      plan     == annotationPlan(word, fault)
      newIndex == Append(plan.kept, [key |-> cacheKey, word |-> wordKey])
      mem1     == MapSet(annotationMemoryCache, wordKey, JsonObject(annotation))
      mem2     == MapDelete(mem1, { e.word : e \in SeqRange(plan.evicted) })
      ls1      == MapDelete(localStorage, { e.key : e \in SeqRange(plan.evicted) })
      ls2      == MapSet(ls1, cacheKey, JsonObject(annotation))
      ls3      == MapSet(ls2, ANNOTATION_CACHE_INDEX_KEY, JsonArray(newIndex))
  IN  /\ scope = "annotation"
      /\ annotationMemoryCache' = IF plan.typeError THEN mem1 ELSE mem2
      /\ localStorage' =
           IF plan.typeError THEN localStorage
           ELSE IF fault \in {"entryQuota", "denied"} THEN ls1
           ELSE IF fault = "indexQuota" THEN ls2
           ELSE ls3
      /\ thrown' = FALSE
      /\ UNCHANGED <<memoryCache, scope>>

\* what getAnnotationFromCache(word) returns: <<value>> or <<>> for null
getAnnotationFromCacheResult(word, fault) ==
  LET cacheKey == AnnotationKeyOf[word]
      wordKey  == WordKeyOf[word]
  IN  IF wordKey \in DOMAIN annotationMemoryCache
      THEN <<annotationMemoryCache[wordKey]>>
      ELSE IF fault = "denied" \/ cacheKey \notin DOMAIN localStorage THEN <<>>
      ELSE <<localStorage[cacheKey]>>

\* getAnnotationFromCache(word)
getAnnotationFromCache(word, fault) ==
  LET wordKey == WordKeyOf[word]
      result  == getAnnotationFromCacheResult(word, fault)
  IN  /\ scope = "annotation"
      /\ annotationMemoryCache' =
           IF result # <<>> /\ wordKey \notin DOMAIN annotationMemoryCache
           THEN MapSet(annotationMemoryCache, wordKey, result[1])
           ELSE annotationMemoryCache
      /\ thrown' = FALSE
      /\ UNCHANGED <<localStorage, memoryCache, scope>>

\* clearAnnotationCache()
clearAnnotationCache(fault) ==
  LET index == getAnnotationCacheIndex(fault)
  IN  /\ scope = "annotation"
      /\ annotationMemoryCache' = EmptyMap
      /\ IF index.kind # "array" \/ fault = "denied"
         THEN /\ thrown' = TRUE
              /\ UNCHANGED localStorage
         ELSE /\ thrown' = FALSE
              /\ localStorage' =
                   MapDelete(localStorage,
                             { e.key : e \in SeqRange(index.value) }
                               \cup {ANNOTATION_CACHE_INDEX_KEY})
      /\ UNCHANGED <<memoryCache, scope>>

\* A page reload: the module-level Maps start empty, localStorage persists
NewSession ==
  /\ memoryCache' = EmptyMap
  /\ annotationMemoryCache' = EmptyMap
  /\ thrown' = FALSE
  /\ UNCHANGED <<localStorage, scope>>

(***************************************************************************)
(* Word mastery ledger (wordMasteryService): one localStorage record per   *)
(* text, keyed by the hash of the trimmed text, holding the looked-up      *)
(* words with their correctCount.                                          *)
(***************************************************************************)
STORAGE_KEY_PREFIX == "vocabflow_words_"

MASTERY_THRESHOLD == 3

\* the largest correctCount the model lets markWordCorrect reach
MaxCorrectCount == 4

\* hashText(text)
hashText(text) == toString36(mathAbs(hashFold(<<0, 0>>, trim(text))))

\* getStorageKey(textHash)
getStorageKey(textHash) == STORAGE_KEY_PREFIX \o textHash

\* Texts of the reader.  "Aa" and "BB" have the same hash; " Aa" differs
\* from "Aa" in leading whitespace only.
LedgerTexts ==
  { <<"A","a">>, <<" ","A","a">>, <<"B","B">>, <<"t","h","e"," ","c","a","t">> }

LedgerWords == { <<"C","a","t">>, <<"c","a","t">>, <<"s","a","t">> }

\* the (text, word) pairs the ledger is called with
LedgerRequests ==
  { r \in [text : LedgerTexts, word : LedgerWords] :
      Len(r.text) > 3 => r.word[1] = "s" }

\* the annotation a lookup of the word may carry
LedgerAnnotation ==
  [w \in LedgerWords |-> IF w[1] = "s" THEN {Note2} ELSE Annotations]

\* the derivations of the inputs, tabulated
HashOf == [t \in LedgerTexts |-> hashText(t)]

LedgerKeyOf == [t \in LedgerTexts |-> getStorageKey(hashText(t))]

\* the word as typed, without word.toLowerCase()
WordAsTypedOf ==
  [w \in LedgerWords |-> Str(w)]

WordLowerOf ==
  [w \in LedgerWords |-> Str(toLowerCase(w))]

\* what localStorage does during one ledger call:
\*   none    every call succeeds
\*   quota   getItem succeeds, setItem throws QuotaExceededError
\*   denied  every localStorage call throws
LedgerFaults == {"none", "quota", "denied"}

\* Array.prototype.findIndex(w => w.word === wordLower), 1-based; 0 for -1
findIndex(words, wordLower) ==
  IF \E i \in 1..Len(words) : words[i].word = wordLower
  THEN CHOOSE i \in 1..Len(words) :
         /\ words[i].word = wordLower
         /\ \A j \in 1..(i - 1) : words[j].word # wordLower
  ELSE 0

\* loadWordData(text): <<data>>, or <<>> for null
loadWordData(text, fault) ==
  LET key == LedgerKeyOf[text]
  IN  IF fault = "denied" \/ key \notin DOMAIN localStorage THEN <<>>
      ELSE <<localStorage[key].value>>

\* saveWordData(data): the store after the guarded setItem
saveWordData(data, fault) ==
  IF fault = "none"
  THEN MapSet(localStorage, getStorageKey(data.textHash), JsonObject(data))
  ELSE localStorage

\* addLookedUpWord that replaces the whole entry on a repeated lookup
addLookedUpWordDataFresh(loaded, text, word, annotation) ==
  LET data      == IF loaded = <<>>
                   THEN [textHash |-> HashOf[text], words |-> <<>>]
                   ELSE loaded[1]
      wordLower == WordLowerOf[word]
      existingIndex == findIndex(data.words, wordLower)
      fresh     == [word |-> wordLower, annotation |-> annotation,
                    correctCount |-> 0]
  IN  IF existingIndex = 0
      THEN [data EXCEPT !.words = Append(@, fresh)]
      ELSE [data EXCEPT !.words[existingIndex] = fresh]

\* the record addLookedUpWord builds from what it loaded
addLookedUpWordData(loaded, text, word, annotation) ==
  LET data      == IF loaded = <<>>
                   THEN [textHash |-> HashOf[text], words |-> <<>>]
                   ELSE loaded[1]
      wordLower == WordLowerOf[word]
      existingIndex == findIndex(data.words, wordLower)
  IN  IF existingIndex = 0
      THEN [data EXCEPT !.words =
              Append(@, [word |-> wordLower, annotation |-> annotation,
                         correctCount |-> 0])]
      ELSE [data EXCEPT !.words[existingIndex].annotation = annotation]

\* markWordCorrect that counts the answer for every word of the ledger
markWordCorrectDataAll(data, word) ==
  [data EXCEPT !.words =
     [j \in 1..Len(data.words) |->
        [data.words[j] EXCEPT !.correctCount = @ + 1]]]

\* the record markWordCorrect builds when the entry exists
markWordCorrectData(data, word) ==
  LET i == findIndex(data.words, WordLowerOf[word])
  IN  [data EXCEPT !.words[i].correctCount = @ + 1]

\* resetWordProgress that takes one correct answer back
resetWordProgressDataStepBack(data, word) ==
  LET i == findIndex(data.words, WordLowerOf[word])
  IN  [data EXCEPT !.words[i].correctCount = @ - 1]

\* the record resetWordProgress builds when the entry exists
resetWordProgressData(data, word) ==
  LET i == findIndex(data.words, WordLowerOf[word])
  IN  [data EXCEPT !.words[i].correctCount = 0]

\* the ledger has an entry for the word
hasEntry(loaded, word) ==
  loaded # <<>> /\ findIndex(loaded[1].words, WordLowerOf[word]) # 0

\* the state that the ledger calls leave alone
ledgerFrame == <<memoryCache, annotationMemoryCache, scope>>

\* addLookedUpWord(text, word, annotation)
addLookedUpWord(text, word, annotation, fault) ==
  /\ scope = "ledger"
  /\ localStorage' =
       saveWordData(addLookedUpWordData(loadWordData(text, fault),
                                        text, word, annotation), fault)
  /\ thrown' = FALSE
  /\ UNCHANGED ledgerFrame

\* what markWordCorrect(text, word) returns
markWordCorrectResult(text, word, fault) ==
  LET loaded == loadWordData(text, fault)
  IN  IF hasEntry(loaded, word)
      THEN loaded[1].words[findIndex(loaded[1].words, WordLowerOf[word])]
             .correctCount + 1
      ELSE 0

\* markWordCorrect that creates a missing ledger or entry with one correct
\* answer
markWordCorrectUpsert(text, word, fault) ==
  LET loaded == loadWordData(text, fault)
      data   == IF loaded = <<>>
                THEN [textHash |-> HashOf[text], words |-> <<>>]
                ELSE loaded[1]
  IN  /\ scope = "ledger"
      /\ localStorage' =
           IF hasEntry(loaded, word)
           THEN saveWordData(markWordCorrectData(loaded[1], word), fault)
           ELSE saveWordData(
                  [data EXCEPT !.words =
                     Append(@, [word |-> WordLowerOf[word],
                                annotation |-> Note1,
                                correctCount |-> 1])], fault)
      /\ thrown' = FALSE
      /\ UNCHANGED ledgerFrame

\* markWordCorrect(text, word)
markWordCorrect(text, word, fault) ==
  LET loaded == loadWordData(text, fault)
  IN  /\ scope = "ledger"
      /\ localStorage' =
           IF hasEntry(loaded, word)
           THEN saveWordData(markWordCorrectData(loaded[1], word), fault)
           ELSE localStorage
      /\ thrown' = FALSE
      /\ UNCHANGED ledgerFrame

\* resetWordProgress(text, word)
resetWordProgress(text, word, fault) ==
  LET loaded == loadWordData(text, fault)
  IN  /\ scope = "ledger"
      /\ localStorage' =
           IF hasEntry(loaded, word)
           THEN saveWordData(resetWordProgressData(loaded[1], word), fault)
           ELSE localStorage
      /\ thrown' = FALSE
      /\ UNCHANGED ledgerFrame

\* isWordMastered that asks for more than MASTERY_THRESHOLD correct answers
isWordMasteredStrict(text, word, fault) ==
  LET loaded == loadWordData(text, fault)
  IN  IF hasEntry(loaded, word)
      THEN loaded[1].words[findIndex(loaded[1].words, WordLowerOf[word])]
             .correctCount > MASTERY_THRESHOLD
      ELSE FALSE

\* isWordMastered(text, word)
isWordMastered(text, word, fault) ==
  LET loaded == loadWordData(text, fault)
  IN  IF hasEntry(loaded, word)
      THEN loaded[1].words[findIndex(loaded[1].words, WordLowerOf[word])]
             .correctCount >= MASTERY_THRESHOLD
      ELSE FALSE

\* getMasteryThreshold()
getMasteryThreshold == MASTERY_THRESHOLD

\* getUnmasteredWords(text)
getUnmasteredWords(text, fault) ==
  LET loaded == loadWordData(text, fault)
  IN  IF loaded = <<>> THEN <<>>
      ELSE SelectSeq(loaded[1].words,
                     LAMBDA w : w.correctCount < MASTERY_THRESHOLD)

\* getAllLookedUpWords(text)
getAllLookedUpWords(text, fault) ==
  LET loaded == loadWordData(text, fault)
  IN  IF loaded = <<>> THEN <<>> ELSE loaded[1].words

\* clearWordData(text): removeItem is not guarded
clearWordData(text, fault) ==
  /\ scope = "ledger"
  /\ IF fault = "denied"
     THEN /\ thrown' = TRUE
          /\ UNCHANGED localStorage
     ELSE /\ thrown' = FALSE
          /\ localStorage' = MapDelete(localStorage, {LedgerKeyOf[text]})
  /\ UNCHANGED ledgerFrame

(***************************************************************************)
(* History                                                                 *)
(***************************************************************************)
\* the capacity of the cache in scope
Capacity ==
  IF scope = "tts" THEN MAX_TTS_CACHE_SIZE ELSE MAX_ANNOTATION_CACHE_SIZE

NotAPut == [op |-> "other"]

\* a put of value v under logical key k that evicted the keys gone;
\* failed: its durable write did not complete
RecordPut(k, v, gone, failed) ==
  /\ last' = [op |-> "put", key |-> k, value |-> v,
              evicted |-> gone, failed |-> failed]
  /\ pending' = LET rest == MapDelete(pending, gone \cup {k})
                IN  IF failed THEN MapSet(rest, k, v) ELSE rest
  /\ UNCHANGED <<trace, extras>>

PutTTS ==
  \E key \in TTSKeys, fault \in PutFaults :
    \E result \in ProviderAudio[key] :
      /\ saveToLocalStorage(key, result, fault)
      /\ LET plan == ttsPlan(key, fault)
         IN  RecordPut(TextKeyOf[key], result,
                       { e.text : e \in SeqRange(plan.evicted) },
                       plan.typeError \/ fault # "none")

GetTTS ==
  \E key \in TTSKeys, fault \in AccessFaults :
    /\ getFromLocalStorage(key, fault)
    /\ last' = NotAPut
    /\ UNCHANGED <<pending, trace, extras>>

ClearTTS ==
  \E fault \in AccessFaults :
    /\ clearTTSCache(fault)
    /\ last' = NotAPut
    /\ pending' = EmptyMap
    /\ UNCHANGED <<trace, extras>>

PutAnnotation ==
  \E word \in Words, fault \in PutFaults :
    \E annotation \in ProviderAnnotation[word] :
      /\ saveAnnotationToCache(word, annotation, fault)
      /\ LET plan == annotationPlan(word, fault)
         IN  RecordPut(WordKeyOf[word], JsonObject(annotation),
                       { e.word : e \in SeqRange(plan.evicted) },
                       plan.typeError \/ fault # "none")

GetAnnotation ==
  \E word \in Words, fault \in AccessFaults :
    /\ getAnnotationFromCache(word, fault)
    /\ last' = NotAPut
    /\ UNCHANGED <<pending, trace, extras>>

ClearAnnotation ==
  \E fault \in AccessFaults :
    /\ clearAnnotationCache(fault)
    /\ last' = NotAPut
    /\ pending' = EmptyMap
    /\ UNCHANGED <<trace, extras>>

Reload ==
  /\ NewSession
  /\ last' = NotAPut
  /\ pending' = EmptyMap
  /\ UNCHANGED <<trace, extras>>

\* the ledger calls, each recorded with its arguments and what it returned
AddWord ==
  \E r \in LedgerRequests, fault \in LedgerFaults :
    \E annotation \in LedgerAnnotation[r.word] :
      /\ addLookedUpWord(r.text, r.word, annotation, fault)
      /\ last' = [op |-> "add", text |-> r.text, word |-> r.word,
                  annotation |-> annotation]
      /\ UNCHANGED <<pending, trace, extras>>

MarkCorrect ==
  \E r \in LedgerRequests, fault \in LedgerFaults :
    /\ markWordCorrectResult(r.text, r.word, fault) <= MaxCorrectCount
    /\ markWordCorrect(r.text, r.word, fault)
    /\ last' = [op |-> "mark", text |-> r.text, word |-> r.word,
                returned |-> markWordCorrectResult(r.text, r.word, fault)]
    /\ UNCHANGED <<pending, trace, extras>>

ResetProgress ==
  \E r \in LedgerRequests, fault \in LedgerFaults :
    /\ resetWordProgress(r.text, r.word, fault)
    /\ last' = [op |-> "reset", text |-> r.text, word |-> r.word]
    /\ UNCHANGED <<pending, trace, extras>>

ClearWords ==
  \E text \in LedgerTexts, fault \in LedgerFaults :
    /\ clearWordData(text, fault)
    /\ last' = [op |-> "clearWords", text |-> text]
    /\ UNCHANGED <<pending, trace, extras>>

Next ==
  \/ PutTTS
  \/ GetTTS
  \/ ClearTTS
  \/ PutAnnotation
  \/ GetAnnotation
  \/ ClearAnnotation
  \/ Reload

\* every operation of the caches, with every storage fault, in any order
Spec == Init /\ [][Next]_vars

LedgerNext ==
  \/ AddWord
  \/ MarkCorrect
  \/ ResetProgress
  \/ ClearWords

\* every call of the ledger, with every storage fault, in any order
LedgerSpec == Init /\ [][LedgerNext]_vars

(***************************************************************************)
(* The ledger with working storage: lookups in the reader and answers in   *)
(* the writing drill, with the number of markWordCorrect calls made on     *)
(* each entry since its creation or last reset counted on the side.        *)
(***************************************************************************)
\* the ledger entry a (text, word) pair addresses
EntryId(text, word) == <<LedgerKeyOf[text], WordLowerOf[word]>>

\* the state the drill leaves alone
drillRest == <<pending, trace, awaiting, served, geminiMemoryCache,
               geminiAnnotationMemoryCache, tabs>>

\* a word is clicked in the reader
LookUp ==
  \E r \in LedgerRequests :
    \E annotation \in LedgerAnnotation[r.word] :
      /\ addLookedUpWord(r.text, r.word, annotation, "none")
      /\ last' = [op |-> "add", text |-> r.text, word |-> r.word,
                  annotation |-> annotation]
      /\ marks' = IF EntryId(r.text, r.word) \in DOMAIN marks THEN marks
                  ELSE MapSet(marks, EntryId(r.text, r.word), 0)
      /\ UNCHANGED drillRest

\* a blank of the drill is answered correctly
AnswerRight ==
  \E r \in LedgerRequests :
    /\ markWordCorrectResult(r.text, r.word, "none") <= MaxCorrectCount
    /\ markWordCorrect(r.text, r.word, "none")
    /\ last' = [op |-> "mark", text |-> r.text, word |-> r.word,
                returned |-> markWordCorrectResult(r.text, r.word, "none")]
    /\ marks' = IF EntryId(r.text, r.word) \in DOMAIN marks
                THEN MapSet(marks, EntryId(r.text, r.word),
                            marks[EntryId(r.text, r.word)] + 1)
                ELSE marks
    /\ UNCHANGED drillRest

\* a blank of the drill is answered wrongly
AnswerWrong ==
  \E r \in LedgerRequests :
    /\ resetWordProgress(r.text, r.word, "none")
    /\ last' = [op |-> "reset", text |-> r.text, word |-> r.word,
                was |-> LET words == getAllLookedUpWords(r.text, "none")
                            i     == findIndex(words, WordLowerOf[r.word])
                        IN  IF i = 0 THEN 0 ELSE words[i].correctCount]
    /\ marks' = IF EntryId(r.text, r.word) \in DOMAIN marks
                THEN MapSet(marks, EntryId(r.text, r.word), 0)
                ELSE marks
    /\ UNCHANGED drillRest

\* the word data of a text is cleared
ForgetText ==
  \E text \in LedgerTexts :
    /\ clearWordData(text, "none")
    /\ last' = [op |-> "clearWords", text |-> text]
    /\ marks' = MapDelete(marks, { id \in DOMAIN marks : id[1] = LedgerKeyOf[text] })
    /\ UNCHANGED drillRest

DrillNext ==
  \/ LookUp
  \/ AnswerRight
  \/ AnswerWrong
  \/ ForgetText

DrillSpec == Init /\ [][DrillNext]_vars

(***************************************************************************)
(* Scenarios: the first operations on an empty cache while every storage   *)
(* call succeeds, recorded in order.                                       *)
(***************************************************************************)
\* the number of operations of a scenario
ScenarioLength == Capacity + 2

ScenarioPutTTS ==
  \E key \in TTSKeys :
    \E result \in ProviderAudio[key] :
      /\ Len(trace) < ScenarioLength
      /\ saveToLocalStorage(key, result, "none")
      /\ trace' = Append(trace, [op |-> "put", key |-> TextKeyOf[key],
                                 value |-> result])
      /\ UNCHANGED <<last, pending, extras>>

ScenarioGetTTS ==
  \E key \in TTSKeys :
    /\ Len(trace) < ScenarioLength
    /\ getFromLocalStorage(key, "none")
    /\ trace' = Append(trace, [op |-> "get", key |-> TextKeyOf[key]])
    /\ UNCHANGED <<last, pending, extras>>

ScenarioPutAnnotation ==
  \E word \in Words :
    \E annotation \in ProviderAnnotation[word] :
      /\ Len(trace) < ScenarioLength
      /\ saveAnnotationToCache(word, annotation, "none")
      /\ trace' = Append(trace, [op |-> "put", key |-> WordKeyOf[word],
                                 value |-> JsonObject(annotation)])
      /\ UNCHANGED <<last, pending, extras>>

ScenarioGetAnnotation ==
  \E word \in Words :
    /\ Len(trace) < ScenarioLength
    /\ getAnnotationFromCache(word, "none")
    /\ trace' = Append(trace, [op |-> "get", key |-> WordKeyOf[word]])
    /\ UNCHANGED <<last, pending, extras>>

ScenarioReload ==
  /\ Len(trace) < ScenarioLength
  /\ NewSession
  /\ trace' = Append(trace, [op |-> "reload"])
  /\ UNCHANGED <<last, pending, extras>>

ScenarioNext ==
  \/ ScenarioPutTTS
  \/ ScenarioGetTTS
  \/ ScenarioPutAnnotation
  \/ ScenarioGetAnnotation
  \/ ScenarioReload

ScenarioSpec == Init /\ [][ScenarioNext]_vars

(***************************************************************************)
(* Observations of the cache in scope, by logical key (the Map key)        *)
(***************************************************************************)
LogicalKeys ==
  IF scope = "tts" THEN { TextKeyOf[k] : k \in TTSKeys }
  ELSE { WordKeyOf[w] : w \in Words }

\* the persisted index as the code reads it back; <<>> when it is no array
IndexItems ==
  LET index == IF scope = "tts" THEN getCacheIndex("none")
               ELSE getAnnotationCacheIndex("none")
  IN  IF index.kind = "array" THEN index.value ELSE <<>>

\* the logical keys of the persisted index, oldest first
IndexKeys ==
  [i \in 1..Len(IndexItems) |->
     IF scope = "tts" THEN IndexItems[i].text ELSE IndexItems[i].word]

IndexKey ==
  IF scope = "tts" THEN TTS_CACHE_INDEX_KEY ELSE ANNOTATION_CACHE_INDEX_KEY

\* the storage key the cache derives for a logical key
StorageKey(k) ==
  IF scope = "tts" THEN CacheKeyOf[CHOOSE x \in TTSKeys : TextKeyOf[x] = k]
  ELSE AnnotationKeyOf[CHOOSE w \in Words : WordKeyOf[w] = k]

Memory == IF scope = "tts" THEN memoryCache ELSE annotationMemoryCache

\* what a get of logical key k returns in the current state
CacheGet(k, fault) ==
  IF scope = "tts"
  THEN getFromLocalStorageResult(CHOOSE x \in TTSKeys : TextKeyOf[x] = k, fault)
  ELSE getAnnotationFromCacheResult(CHOOSE w \in Words : WordKeyOf[w] = k, fault)

Distinct(s) == \A i, j \in 1..Len(s) : i # j => s[i] # s[j]

\* the scenario so far consists of puts only
OnlyPuts == \A i \in 1..Len(trace) : trace[i].op = "put"

\* the logical keys of a scenario of puts, in order
TraceKeys == [i \in 1..Len(trace) |-> trace[i].key]

(***************************************************************************)
(* C1: in every reachable state the persisted index of each cache holds    *)
(* at most N entries (N = MAX_TTS_CACHE_SIZE, MAX_ANNOTATION_CACHE_SIZE).  *)
(***************************************************************************)
CapacityBound ==
  /\ getCacheIndex("none").kind = "array"
       => Len(getCacheIndex("none").value) <= MAX_TTS_CACHE_SIZE
  /\ getAnnotationCacheIndex("none").kind = "array"
       => Len(getAnnotationCacheIndex("none").value) <= MAX_ANNOTATION_CACHE_SIZE

\* a put has just evicted an entry of a full index and stored its own
CapacityBoundWitness ==
  /\ last.op = "put"
  /\ ~last.failed
  /\ last.evicted # {}
  /\ Len(IndexItems) = Capacity
  /\ IndexKeys[Capacity] = last.key

(***************************************************************************)
(* C2: after putting N + 1 distinct logical keys k1..k(N+1), in that order,*)
(* into an empty cache, get(k1) returns absent and get(ki) returns the     *)
(* value stored for ki, for every i in 2..N+1.                             *)
(***************************************************************************)
FifoEviction ==
  (Len(trace) = Capacity + 1 /\ OnlyPuts /\ Distinct(TraceKeys))
    => /\ CacheGet(trace[1].key, "none") = <<>>
       /\ \A i \in 2..(Capacity + 1) :
            CacheGet(trace[i].key, "none") = <<trace[i].value>>

(***************************************************************************)
(* C3: a get(k) issued immediately after put(k, v) returns v, in both      *)
(* caches, whether or not the durable write of the put succeeded.          *)
(***************************************************************************)
RoundTrip ==
  last.op = "put"
    => \A g \in AccessFaults : CacheGet(last.key, g) = <<last.value>>

\* a put has just been made whose value only the memory layer holds
RoundTripWitness ==
  /\ last.op = "put"
  /\ StorageKey(last.key) \notin DOMAIN localStorage
  /\ CacheGet(last.key, "none") = <<last.value>>

(***************************************************************************)
(* C4: with the index at capacity holding k1..kN in insertion order, a     *)
(* put of k1 removes k1's old slot, evicts nothing and appends k1 as the   *)
(* newest entry; the next put of a new key then evicts k2 and leaves k1    *)
(* retrievable.                                                            *)
(***************************************************************************)
\* the scenario starts k1..kN, k1: the index was filled and k1 put again
Reinserted ==
  /\ OnlyPuts
  /\ Len(trace) >= Capacity + 1
  /\ Distinct(SubSeq(TraceKeys, 1, Capacity))
  /\ TraceKeys[Capacity + 1] = TraceKeys[1]

\* ... followed by the put of a key that is none of k1..kN
ThenNewKey ==
  /\ Reinserted
  /\ Len(trace) = Capacity + 2
  /\ \A i \in 1..Capacity : TraceKeys[Capacity + 2] # TraceKeys[i]

ReinsertResetsRecency ==
  /\ (Reinserted /\ Len(trace) = Capacity + 1)
       => /\ IndexKeys = SubSeq(TraceKeys, 2, Capacity + 1)
          /\ \A i \in 1..Capacity :
               /\ TraceKeys[i] \in DOMAIN Memory
               /\ StorageKey(TraceKeys[i]) \in DOMAIN localStorage
  /\ ThenNewKey
       => /\ IndexKeys = SubSeq(TraceKeys, 3, Capacity + 2)
          /\ TraceKeys[2] \notin DOMAIN Memory
          /\ CacheGet(TraceKeys[1], "none") = <<trace[Capacity + 1].value>>

ReinsertResetsRecencyWitness ==
  /\ ThenNewKey
  /\ IndexKeys[Capacity - 1] = TraceKeys[1]
  /\ TraceKeys[2] \notin SeqRange(IndexKeys)

(***************************************************************************)
(* C5: in every reachable state index entries and durable records          *)
(* correspond 1:1: every index entry's storage key holds a record, every   *)
(* record of the cache's namespace is referenced by exactly one index      *)
(* entry, and no two index entries share a logical key.                    *)
(***************************************************************************)
\* the storage keys of the cache's records
RecordKeys == { StorageKey(k) : k \in LogicalKeys } \ {IndexKey}

IndexMatchesRecords ==
  /\ \A i \in 1..Len(IndexItems) : IndexItems[i].key \in DOMAIN localStorage
  /\ \A key \in RecordKeys \cap DOMAIN localStorage :
       Cardinality({ i \in 1..Len(IndexItems) : IndexItems[i].key = key }) = 1
  /\ Distinct(IndexKeys)

(***************************************************************************)
(* C6: no durable-store error raised during a get, put or clear reaches    *)
(* the caller: no call of the cache throws.                                *)
(***************************************************************************)
NoStorageErrorEscapes == thrown = FALSE

(***************************************************************************)
(* C7: when the durable write of put(k, v) fails, every get(k) of the      *)
(* same session returns v until k is overwritten, evicted or the cache is  *)
(* cleared.                                                                *)
(***************************************************************************)
MemoryWriteRetained ==
  \A k \in DOMAIN pending :
    \A g \in AccessFaults : CacheGet(k, g) = <<pending[k]>>

\* a value whose durable write failed is still served after a later
\* operation, while the durable store has no record under its key
MemoryWriteRetainedWitness ==
  \E k \in DOMAIN pending :
    /\ ~(last.op = "put" /\ last.key = k)
    /\ StorageKey(k) \notin DOMAIN localStorage
    /\ CacheGet(k, "none") = <<pending[k]>>

(***************************************************************************)
(* C8: after clearTTSCache / clearAnnotationCache the memory layer is      *)
(* empty, the index and the records it referenced are deleted, get(k)      *)
(* returns absent for every key k, and the call did not throw; a cleared   *)
(* cache has no index left, so that a second clear changes nothing.        *)
(***************************************************************************)
ClearEmptiesCache ==
  [][ (clearTTSCache("none") \/ clearAnnotationCache("none"))
        => /\ ~thrown'
           /\ Memory' = EmptyMap
           /\ IndexKey \notin DOMAIN localStorage'
           /\ \A i \in 1..Len(IndexItems) :
                IndexItems[i].key \notin DOMAIN localStorage'
           /\ \A k \in LogicalKeys : CacheGet(k, "none")' = <<>>
    ]_vars

(***************************************************************************)
(* C9: a get leaves the persisted index and every durable record unchanged *)
(* and at most adds the requested key to the memory layer; hence a key is  *)
(* out of the index once N other keys were put after it, however often it  *)
(* was read.                                                               *)
(***************************************************************************)
\* N distinct keys other than trace[i].key were put after position i
AgedOut(i) ==
  /\ trace[i].op = "put"
  /\ \A j \in (i + 1)..Len(trace) :
       trace[j].op = "put" => trace[j].key # trace[i].key
  /\ Cardinality({ trace[j].key : j \in { x \in (i + 1)..Len(trace) :
                                           trace[x].op = "put" } }) >= Capacity

GetKeepsOrder ==
  /\ [][ (Len(trace') = Len(trace) + 1 /\ trace'[Len(trace')].op = "get")
           => /\ localStorage' = localStorage
              /\ MapDelete(Memory', {trace'[Len(trace')].key})
                   = MapDelete(Memory, {trace'[Len(trace')].key})
       ]_vars
  /\ [](\A i \in 1..Len(trace) :
          AgedOut(i) => trace[i].key \notin SeqRange(IndexKeys))

\* k was put, read, and then aged out by N puts of other keys
GetKeepsOrderWitness ==
  /\ Len(trace) = Capacity + 2
  /\ trace[2].op = "get"
  /\ trace[2].key = trace[1].key
  /\ AgedOut(1)
  /\ trace[1].key \notin SeqRange(IndexKeys)

(***************************************************************************)
(* C10: audio stored for (text, voice A) and (text, voice B), A # B, are   *)
(* independent entries: a get for one voice returns only audio that was    *)
(* put for that voice, and a put for one voice does not change what a get  *)
(* for the other returns, unless it evicts the other as the oldest entry.  *)
(***************************************************************************)
\* the logical keys of two requests for one text with different voices
VoicePairs ==
  { <<TextKeyOf[ttsLogicalKey(a.text, a.voice)],
      TextKeyOf[ttsLogicalKey(b.text, b.voice)]>> :
      <<a, b>> \in { p \in TTSRequests \X TTSRequests :
                      p[1].text = p[2].text /\ p[1].voice # p[2].voice } }

VoiceSensitivity ==
  /\ [](scope = "tts" =>
          \A p \in VoicePairs :
            CacheGet(p[1], "none") # <<>>
              => \E i \in 1..Len(trace) :
                   /\ trace[i].op = "put"
                   /\ trace[i].key = p[1]
                   /\ CacheGet(p[1], "none") = <<trace[i].value>>)
  /\ [][ scope = "tts" =>
           \A p \in VoicePairs :
             ( /\ Len(trace') = Len(trace) + 1
               /\ trace'[Len(trace')].op = "put"
               /\ trace'[Len(trace')].key = p[2]
               /\ (p[1] \in SeqRange(IndexKeys) => p[1] \in SeqRange(IndexKeys')) )
               => CacheGet(p[1], "none")' = CacheGet(p[1], "none")
       ]_vars

(***************************************************************************)
(* Fetch-through: fetchTTSAudio and fetchWordAnnotation.  Each call runs   *)
(* up to its await of the provider in one step and resumes in another;     *)
(* calls that await the provider at the same time are a bag of their       *)
(* cache-key arguments.                                                    *)
(***************************************************************************)
\* the callers that may await the provider at once: the playback of a
\* sentence and the preload of the next one
Callers == {"playback", "preload"}

BagAdd(b, k) == MapSet(b, k, IF k \in DOMAIN b THEN b[k] + 1 ELSE 1)

BagRemove(b, k) == IF b[k] = 1 THEN MapDelete(b, {k}) ELSE MapSet(b, k, b[k] - 1)

RECURSIVE BagSize(_)
BagSize(b) ==
  IF DOMAIN b = {} THEN 0
  ELSE LET k == CHOOSE x \in DOMAIN b : TRUE
       IN  b[k] + BagSize(MapDelete(b, {k}))

\* the apiKey argument: missing or configured
ApiKeys == {"", "sk-key"}

\* fetchTTSAudio that skips the cache check and always asks the provider
fetchTTSAudioUncached(text, apiKey, voice, fault) ==
  LET cacheKey == ttsLogicalKey(text, voice)
  IN  /\ scope = "tts"
      /\ IF apiKey = ""
         THEN /\ thrown' = TRUE
              /\ UNCHANGED awaiting
         ELSE /\ thrown' = FALSE
              /\ awaiting' = BagAdd(awaiting, cacheKey)
      /\ UNCHANGED <<localStorage, memoryCache, annotationMemoryCache, scope>>

\* fetchTTSAudio(text, apiKey, voice) up to the await of the provider:
\* throws without an API key, returns the cached audio on a hit, otherwise
\* issues the provider request
fetchTTSAudio(text, apiKey, voice, fault) ==
  LET cacheKey == ttsLogicalKey(text, voice)
      cached   == getFromLocalStorageResult(cacheKey, fault)
  IN  IF apiKey = ""
      THEN /\ scope = "tts"
           /\ thrown' = TRUE
           /\ UNCHANGED <<localStorage, memoryCache, annotationMemoryCache,
                          scope, awaiting>>
      ELSE /\ getFromLocalStorage(cacheKey, fault)
           /\ awaiting' = IF cached # <<>> THEN awaiting
                          ELSE BagAdd(awaiting, cacheKey)

\* fetchTTSAudio that answers a failed request by asking the provider again
fetchTTSAudioResumeRetry(cacheKey, outcome, fault) ==
  IF outcome = <<>>
  THEN /\ scope = "tts"
       /\ thrown' = FALSE
       /\ UNCHANGED <<localStorage, memoryCache, annotationMemoryCache, scope,
                      awaiting>>
  ELSE /\ awaiting' = BagRemove(awaiting, cacheKey)
       /\ saveToLocalStorage(cacheKey, outcome[1], fault)

\* fetchTTSAudio from the provider's answer on: outcome is <<result>> when
\* the provider answered and <<>> when the request failed (rethrown)
fetchTTSAudioResume(cacheKey, outcome, fault) ==
  /\ awaiting' = BagRemove(awaiting, cacheKey)
  /\ IF outcome = <<>>
     THEN /\ scope = "tts"
          /\ thrown' = TRUE
          /\ UNCHANGED <<localStorage, memoryCache, annotationMemoryCache, scope>>
     ELSE saveToLocalStorage(cacheKey, outcome[1], fault)

\* fetchWordAnnotation(word, contextSentence, apiKey, language) up to the
\* await of the provider; the cache is asked with the word alone
fetchWordAnnotation(word, apiKey, fault) ==
  LET cached == getAnnotationFromCacheResult(word, fault)
  IN  IF apiKey = ""
      THEN /\ scope = "annotation"
           /\ thrown' = TRUE
           /\ UNCHANGED <<localStorage, memoryCache, annotationMemoryCache,
                          scope, awaiting>>
      ELSE /\ getAnnotationFromCache(word, fault)
           /\ awaiting' = IF cached # <<>> THEN awaiting
                          ELSE BagAdd(awaiting, word)

\* fetchWordAnnotation from the provider's answer on
fetchWordAnnotationResume(word, outcome, fault) ==
  /\ awaiting' = BagRemove(awaiting, word)
  /\ IF outcome = <<>>
     THEN /\ scope = "annotation"
          /\ thrown' = TRUE
          /\ UNCHANGED <<localStorage, memoryCache, annotationMemoryCache, scope>>
     ELSE saveAnnotationToCache(word, outcome[1].value, fault)

\* the state the fetch operations leave alone
fetchRest == <<pending, trace, geminiMemoryCache, geminiAnnotationMemoryCache,
               marks, tabs>>

\* the storage faults met during a fetch: working storage, or a record
\* write that exceeds the quota
FetchPutFaults == {"none", "entryQuota"}

FetchAccessFaults == {"none"}

FetchTTS ==
  \E r \in TTSRequests, apiKey \in ApiKeys, fault \in FetchAccessFaults :
    LET key    == ttsLogicalKey(r.text, r.voice)
        cached == getFromLocalStorageResult(key, fault)
    IN  /\ (apiKey # "" /\ cached = <<>>) => BagSize(awaiting) < Cardinality(Callers)
        /\ fetchTTSAudio(r.text, apiKey, r.voice, fault)
        /\ last' = IF apiKey = "" THEN [op |-> "rejected", key |-> TextKeyOf[key]]
                   ELSE IF cached # <<>>
                   THEN [op |-> "hit", key |-> TextKeyOf[key], value |-> cached[1]]
                   ELSE [op |-> "miss", key |-> TextKeyOf[key]]
        /\ served' = IF apiKey # "" /\ cached # <<>>
                     THEN served \cup {TextKeyOf[key]} ELSE served
        /\ UNCHANGED fetchRest

FetchTTSAnswered ==
  \E key \in DOMAIN awaiting \cap TTSKeys, fault \in FetchPutFaults :
    \E result \in ProviderAudio[key] :
      /\ fetchTTSAudioResume(key, <<result>>, fault)
      /\ last' = [op |-> "stored", key |-> TextKeyOf[key], value |-> result]
      /\ served' = (served \ { e.text : e \in SeqRange(ttsPlan(key, fault).evicted) })
                     \cup {TextKeyOf[key]}
      /\ UNCHANGED fetchRest

FetchTTSFailed ==
  \E key \in DOMAIN awaiting \cap TTSKeys :
    /\ fetchTTSAudioResume(key, <<>>, "none")
    /\ last' = [op |-> "failed", key |-> TextKeyOf[key]]
    /\ UNCHANGED <<served, fetchRest>>

FetchClearTTS ==
  \E fault \in FetchAccessFaults :
    /\ clearTTSCache(fault)
    /\ last' = NotAPut
    /\ served' = {}
    /\ UNCHANGED <<awaiting, fetchRest>>

FetchAnnotation ==
  \E word \in Words, apiKey \in ApiKeys, fault \in FetchAccessFaults :
    LET cached == getAnnotationFromCacheResult(word, fault)
    IN  /\ (apiKey # "" /\ cached = <<>>) => BagSize(awaiting) < Cardinality(Callers)
        /\ fetchWordAnnotation(word, apiKey, fault)
        /\ last' = IF apiKey = "" THEN [op |-> "rejected", key |-> WordKeyOf[word]]
                   ELSE IF cached # <<>>
                   THEN [op |-> "hit", key |-> WordKeyOf[word], value |-> cached[1]]
                   ELSE [op |-> "miss", key |-> WordKeyOf[word]]
        /\ served' = IF apiKey # "" /\ cached # <<>>
                     THEN served \cup {WordKeyOf[word]} ELSE served
        /\ UNCHANGED fetchRest

FetchAnnotationAnswered ==
  \E word \in DOMAIN awaiting \cap Words, fault \in FetchPutFaults :
    \E annotation \in ProviderAnnotation[word] :
      /\ fetchWordAnnotationResume(word, <<JsonObject(annotation)>>, fault)
      /\ last' = [op |-> "stored", key |-> WordKeyOf[word],
                  value |-> JsonObject(annotation)]
      /\ served' = (served \ { e.word :
                                 e \in SeqRange(annotationPlan(word, fault).evicted) })
                     \cup {WordKeyOf[word]}
      /\ UNCHANGED fetchRest

FetchAnnotationFailed ==
  \E word \in DOMAIN awaiting \cap Words :
    /\ fetchWordAnnotationResume(word, <<>>, "none")
    /\ last' = [op |-> "failed", key |-> WordKeyOf[word]]
    /\ UNCHANGED <<served, fetchRest>>

FetchClearAnnotation ==
  \E fault \in FetchAccessFaults :
    /\ clearAnnotationCache(fault)
    /\ last' = NotAPut
    /\ served' = {}
    /\ UNCHANGED <<awaiting, fetchRest>>

\* a page reload also drops the calls that were awaiting the provider
FetchReload ==
  /\ NewSession
  /\ awaiting' = EmptyMap
  /\ last' = NotAPut
  /\ served' = {}
  /\ UNCHANGED fetchRest

FetchNext ==
  \/ FetchTTS
  \/ FetchTTSAnswered
  \/ FetchTTSFailed
  \/ FetchClearTTS
  \/ FetchAnnotation
  \/ FetchAnnotationAnswered
  \/ FetchAnnotationFailed
  \/ FetchClearAnnotation
  \/ FetchReload

\* the exported operations of the caches, with every storage fault
FetchSpec == Init /\ [][FetchNext]_vars

(***************************************************************************)
(* C11: with an API key, a fetch whose key the cache holds returns the     *)
(* cached value, asks the provider nothing and leaves the durable store    *)
(* (index and records) as it was; a fetch whose key the cache lacks asks   *)
(* the provider, and when the provider answers the result is put and       *)
(* returned.  Hence a fetch of a key that an earlier fetch of the session  *)
(* answered, with no eviction of the key or clear in between, never asks   *)
(* the provider.                                                           *)
(***************************************************************************)
\* the cache-key argument of the fetch for logical key k
ArgOf(k) ==
  IF scope = "tts" THEN CHOOSE x \in TTSKeys : TextKeyOf[x] = k
  ELSE CHOOSE w \in Words : WordKeyOf[w] = k

\* the answers the provider may give to the fetch for logical key k
ProviderAnswers(k) ==
  IF scope = "tts" THEN ProviderAudio[ArgOf(k)]
  ELSE { JsonObject(a) : a \in ProviderAnnotation[ArgOf(k)] }

FetchThrough ==
  /\ [][ last'.op = "hit"
           => /\ CacheGet(last'.key, "none") = <<last'.value>>
              /\ awaiting' = awaiting
              /\ localStorage' = localStorage
              /\ ~thrown'
       ]_vars
  /\ [][ (last'.op = "miss" /\ awaiting' # awaiting)
           => /\ CacheGet(last'.key, "none") = <<>>
              /\ last'.key \notin served
              /\ awaiting' = BagAdd(awaiting, ArgOf(last'.key))
              /\ localStorage' = localStorage
              /\ Memory' = Memory
       ]_vars
  /\ [][ (last'.op = "stored" /\ awaiting' # awaiting)
           => /\ ArgOf(last'.key) \in DOMAIN awaiting
              /\ last'.value \in ProviderAnswers(last'.key)
              /\ last'.key \in DOMAIN Memory'
              /\ Memory'[last'.key] = last'.value
       ]_vars
  /\ [](\A k \in served : CacheGet(k, "none") # <<>>)

\* a fetch has just been answered from the cache, for a key that an
\* earlier fetch stored durably, while another request awaits the provider
FetchThroughWitness ==
  /\ last.op = "hit"
  /\ last.key \in SeqRange(IndexKeys)
  /\ last.key \in DOMAIN Memory
  /\ awaiting # EmptyMap

(***************************************************************************)
(* The caches of the Gemini service: the code of the OpenAI caches under   *)
(* its own prefixes, index keys and module-level Maps.                     *)
(***************************************************************************)
GEMINI_TTS_CACHE_PREFIX == "vocabflow_tts_"

GEMINI_TTS_CACHE_INDEX_KEY == "vocabflow_tts_index"

GEMINI_ANNOTATION_CACHE_PREFIX == "vocabflow_annotation_"

GEMINI_ANNOTATION_CACHE_INDEX_KEY == "vocabflow_annotation_index"

\* Capacities, 20 and 500 in the source, scaled like those of the OpenAI
\* caches
GEMINI_MAX_TTS_CACHE_SIZE == 2

GEMINI_MAX_ANNOTATION_CACHE_SIZE == 2

\* getCacheKey(text) of the Gemini service
geminiGetCacheKey(text) ==
  GEMINI_TTS_CACHE_PREFIX \o toString36(mathAbs(hashFold(<<0, 0>>, trim(text))))

\* getAnnotationCacheKey(word) of the Gemini service
geminiGetAnnotationCacheKey(word) ==
  GEMINI_ANNOTATION_CACHE_PREFIX \o Str(trim(toLowerCase(word)))

GeminiCacheKeyOf == [k \in TTSKeys |-> geminiGetCacheKey(k)]

GeminiAnnotationKeyOf == [w \in Words |-> geminiGetAnnotationCacheKey(w)]

\* the state a Gemini TTS call leaves alone
geminiTtsFrame ==
  <<memoryCache, annotationMemoryCache, geminiAnnotationMemoryCache, scope>>

\* the state a Gemini annotation call leaves alone
geminiAnnotationFrame ==
  <<memoryCache, annotationMemoryCache, geminiMemoryCache, scope>>

\* getCacheIndex() of the Gemini service
geminiGetCacheIndex(fault) ==
  IF fault = "denied" \/ GEMINI_TTS_CACHE_INDEX_KEY \notin DOMAIN localStorage
  THEN JsonArray(<<>>)
  ELSE localStorage[GEMINI_TTS_CACHE_INDEX_KEY]

\* the filter and eviction loop both caches run on their index
indexPlan(index, logicalKey, capacity) ==
  LET isArray  == index.kind = "array"
      items    == IF isArray THEN index.value ELSE <<>>
      name(e)  == IF "text" \in DOMAIN e THEN e.text ELSE e.word
      filtered == SelectSeq(items, LAMBDA e : name(e) # logicalKey)
      nEvict   == IF Len(filtered) >= capacity
                  THEN Len(filtered) - capacity + 1 ELSE 0
  IN  [ typeError |-> ~isArray,
        evicted   |-> SubSeq(filtered, 1, nEvict),
        kept      |-> SubSeq(filtered, nEvict + 1, Len(filtered)) ]

\* saveToLocalStorage(text, result) of the Gemini service
geminiSaveToLocalStorage(text, result, fault) ==
  LET cacheKey == GeminiCacheKeyOf[text]
      textKey  == TextKeyOf[text]
      plan     == indexPlan(geminiGetCacheIndex(fault), textKey,
                            GEMINI_MAX_TTS_CACHE_SIZE)
      entry    == JsonObject([base64 |-> Base64Of[result],
                              mimeType |-> result.mimeType])
      newIndex == Append(plan.kept, [key |-> cacheKey, text |-> textKey])
      mem1     == MapSet(geminiMemoryCache, textKey, result)
      mem2     == MapDelete(mem1, { e.text : e \in SeqRange(plan.evicted) })
      ls1      == MapDelete(localStorage, { e.key : e \in SeqRange(plan.evicted) })
      ls2      == MapSet(ls1, cacheKey, entry)
      ls3      == MapSet(ls2, GEMINI_TTS_CACHE_INDEX_KEY, JsonArray(newIndex))
  IN  /\ scope = "geminiTts"
      /\ geminiMemoryCache' = IF plan.typeError THEN mem1 ELSE mem2
      /\ localStorage' =
           IF plan.typeError THEN localStorage
           ELSE IF fault \in {"entryQuota", "denied"} THEN ls1
           ELSE IF fault = "indexQuota" THEN ls2
           ELSE ls3
      /\ thrown' = FALSE
      /\ UNCHANGED geminiTtsFrame

\* what getFromLocalStorage(text) of the Gemini service returns
geminiGetFromLocalStorageResult(text, fault) ==
  LET cacheKey == GeminiCacheKeyOf[text]
      textKey  == TextKeyOf[text]
  IN  IF textKey \in DOMAIN geminiMemoryCache THEN <<geminiMemoryCache[textKey]>>
      ELSE IF fault = "denied" \/ cacheKey \notin DOMAIN localStorage THEN <<>>
      ELSE LET stored == localStorage[cacheKey]
           IN  IF stored.kind = "object" /\ "base64" \in DOMAIN stored.value
               THEN <<[data |-> BytesOf[stored.value.base64],
                       mimeType |-> stored.value.mimeType]>>
               ELSE <<>>

\* getFromLocalStorage(text) of the Gemini service
geminiGetFromLocalStorage(text, fault) ==
  LET textKey == TextKeyOf[text]
      result  == geminiGetFromLocalStorageResult(text, fault)
  IN  /\ scope = "geminiTts"
      /\ geminiMemoryCache' =
           IF result # <<>> /\ textKey \notin DOMAIN geminiMemoryCache
           THEN MapSet(geminiMemoryCache, textKey, result[1])
           ELSE geminiMemoryCache
      /\ thrown' = FALSE
      /\ UNCHANGED <<localStorage, geminiTtsFrame>>

\* clearTTSCache() of the Gemini service
geminiClearTTSCache(fault) ==
  LET index == geminiGetCacheIndex(fault)
  IN  /\ scope = "geminiTts"
      /\ geminiMemoryCache' = EmptyMap
      /\ IF index.kind # "array" \/ fault = "denied"
         THEN /\ thrown' = TRUE
              /\ UNCHANGED localStorage
         ELSE /\ thrown' = FALSE
              /\ localStorage' =
                   MapDelete(localStorage,
                             { e.key : e \in SeqRange(index.value) }
                               \cup {GEMINI_TTS_CACHE_INDEX_KEY})
      /\ UNCHANGED geminiTtsFrame

\* getAnnotationCacheIndex() of the Gemini service
geminiGetAnnotationCacheIndex(fault) ==
  IF fault = "denied"
       \/ GEMINI_ANNOTATION_CACHE_INDEX_KEY \notin DOMAIN localStorage
  THEN JsonArray(<<>>)
  ELSE localStorage[GEMINI_ANNOTATION_CACHE_INDEX_KEY]

\* saveAnnotationToCache(word, annotation) of the Gemini service
geminiSaveAnnotationToCache(word, annotation, fault) ==
  LET cacheKey == GeminiAnnotationKeyOf[word]
      wordKey  == WordKeyOf[word]
      plan     == indexPlan(geminiGetAnnotationCacheIndex(fault), wordKey,
                            GEMINI_MAX_ANNOTATION_CACHE_SIZE)
      newIndex == Append(plan.kept, [key |-> cacheKey, word |-> wordKey])
      mem1     == MapSet(geminiAnnotationMemoryCache, wordKey,
                         JsonObject(annotation))
      mem2     == MapDelete(mem1, { e.word : e \in SeqRange(plan.evicted) })
      ls1      == MapDelete(localStorage, { e.key : e \in SeqRange(plan.evicted) })
      ls2      == MapSet(ls1, cacheKey, JsonObject(annotation))
      ls3      == MapSet(ls2, GEMINI_ANNOTATION_CACHE_INDEX_KEY,
                         JsonArray(newIndex))
  IN  /\ scope = "geminiAnnotation"
      /\ geminiAnnotationMemoryCache' = IF plan.typeError THEN mem1 ELSE mem2
      /\ localStorage' =
           IF plan.typeError THEN localStorage
           ELSE IF fault \in {"entryQuota", "denied"} THEN ls1
           ELSE IF fault = "indexQuota" THEN ls2
           ELSE ls3
      /\ thrown' = FALSE
      /\ UNCHANGED geminiAnnotationFrame

\* what getAnnotationFromCache(word) of the Gemini service returns
geminiGetAnnotationFromCacheResult(word, fault) ==
  LET cacheKey == GeminiAnnotationKeyOf[word]
      wordKey  == WordKeyOf[word]
  IN  IF wordKey \in DOMAIN geminiAnnotationMemoryCache
      THEN <<geminiAnnotationMemoryCache[wordKey]>>
      ELSE IF fault = "denied" \/ cacheKey \notin DOMAIN localStorage THEN <<>>
      ELSE <<localStorage[cacheKey]>>

\* getAnnotationFromCache(word) of the Gemini service
geminiGetAnnotationFromCache(word, fault) ==
  LET wordKey == WordKeyOf[word]
      result  == geminiGetAnnotationFromCacheResult(word, fault)
  IN  /\ scope = "geminiAnnotation"
      /\ geminiAnnotationMemoryCache' =
           IF result # <<>> /\ wordKey \notin DOMAIN geminiAnnotationMemoryCache
           THEN MapSet(geminiAnnotationMemoryCache, wordKey, result[1])
           ELSE geminiAnnotationMemoryCache
      /\ thrown' = FALSE
      /\ UNCHANGED <<localStorage, geminiAnnotationFrame>>

\* clearAnnotationCache() of the Gemini service
geminiClearAnnotationCache(fault) ==
  LET index == geminiGetAnnotationCacheIndex(fault)
  IN  /\ scope = "geminiAnnotation"
      /\ geminiAnnotationMemoryCache' = EmptyMap
      /\ IF index.kind # "array" \/ fault = "denied"
         THEN /\ thrown' = TRUE
              /\ UNCHANGED localStorage
         ELSE /\ thrown' = FALSE
              /\ localStorage' =
                   MapDelete(localStorage,
                             { e.key : e \in SeqRange(index.value) }
                               \cup {GEMINI_ANNOTATION_CACHE_INDEX_KEY})
      /\ UNCHANGED geminiAnnotationFrame

(***************************************************************************)
(* The five stores side by side: one of them is exercised while each of    *)
(* the other four holds what one lookup left in it.                        *)
(***************************************************************************)
Stores == {"tts", "annotation", "ledger", "geminiTts", "geminiAnnotation"}

\* the key prefix of a store
PrefixOf(store) ==
  IF store = "tts" THEN TTS_CACHE_PREFIX
  ELSE IF store = "annotation" THEN ANNOTATION_CACHE_PREFIX
  ELSE IF store = "ledger" THEN STORAGE_KEY_PREFIX
  ELSE IF store = "geminiTts" THEN GEMINI_TTS_CACHE_PREFIX
  ELSE GEMINI_ANNOTATION_CACHE_PREFIX

\* String.prototype.startsWith
startsWith(str, prefix) ==
  Len(str) >= Len(prefix) /\ SubSeq(str, 1, Len(prefix)) = prefix

MapMerge(a, b) ==
  [x \in DOMAIN a \cup DOMAIN b |-> IF x \in DOMAIN a THEN a[x] ELSE b[x]]

\* the sentence, word and text of the one lookup
HelloKey == ttsLogicalKey(<<" ","h","e","l","l","o">>, <<"a","l","l","o","y">>)

CatWord == <<" ","C","a","t">>

AaText == <<"A","a">>

\* what a store holds in localStorage after its first lookup
StorageAfterLookup(store) ==
  LET clip == JsonObject([base64 |-> Base64Of[Clip1], mimeType |-> Clip1.mimeType])
      note == JsonObject(Note1)
  IN  IF store = "tts"
      THEN MapSet(MapSet(EmptyMap, CacheKeyOf[HelloKey], clip),
                  TTS_CACHE_INDEX_KEY,
                  JsonArray(<<[key |-> CacheKeyOf[HelloKey],
                               text |-> TextKeyOf[HelloKey]]>>))
      ELSE IF store = "geminiTts"
      THEN MapSet(MapSet(EmptyMap, GeminiCacheKeyOf[HelloKey], clip),
                  GEMINI_TTS_CACHE_INDEX_KEY,
                  JsonArray(<<[key |-> GeminiCacheKeyOf[HelloKey],
                               text |-> TextKeyOf[HelloKey]]>>))
      ELSE IF store = "annotation"
      THEN MapSet(MapSet(EmptyMap, AnnotationKeyOf[CatWord], note),
                  ANNOTATION_CACHE_INDEX_KEY,
                  JsonArray(<<[key |-> AnnotationKeyOf[CatWord],
                               word |-> WordKeyOf[CatWord]]>>))
      ELSE IF store = "geminiAnnotation"
      THEN MapSet(MapSet(EmptyMap, GeminiAnnotationKeyOf[CatWord], note),
                  GEMINI_ANNOTATION_CACHE_INDEX_KEY,
                  JsonArray(<<[key |-> GeminiAnnotationKeyOf[CatWord],
                               word |-> WordKeyOf[CatWord]]>>))
      ELSE MapSet(EmptyMap, LedgerKeyOf[AaText],
                  JsonObject(addLookedUpWordData(<<>>, AaText,
                                                 <<"C","a","t">>, Note1)))

\* what the module-level Map of a cache holds after its first lookup
MemoryAfterLookup(store) ==
  IF store \in {"tts", "geminiTts"}
  THEN MapSet(EmptyMap, TextKeyOf[HelloKey], Clip1)
  ELSE MapSet(EmptyMap, WordKeyOf[CatWord], JsonObject(Note1))

\* localStorage and the Maps of the stores that are not exercised
Others(store) == IF scope = store THEN EmptyMap ELSE StorageAfterLookup(store)

OtherMemory(store) == IF scope = store THEN EmptyMap ELSE MemoryAfterLookup(store)

IsolationInit ==
  /\ scope \in Stores
  /\ localStorage =
       MapMerge(Others("tts"),
         MapMerge(Others("annotation"),
           MapMerge(Others("ledger"),
             MapMerge(Others("geminiTts"), Others("geminiAnnotation")))))
  /\ memoryCache = OtherMemory("tts")
  /\ annotationMemoryCache = OtherMemory("annotation")
  /\ geminiMemoryCache = OtherMemory("geminiTts")
  /\ geminiAnnotationMemoryCache = OtherMemory("geminiAnnotation")
  /\ thrown = FALSE
  /\ last = [op |-> "none"]
  /\ pending = EmptyMap
  /\ trace = <<>>
  /\ awaiting = EmptyMap
  /\ served = {}
  /\ marks = EmptyMap
  /\ tabs = [t \in Tabs |-> Idle]

\* the state the calls on the exercised store leave alone
isolationRest == <<pending, trace, awaiting, served, marks, tabs>>

geminiMaps == <<geminiMemoryCache, geminiAnnotationMemoryCache>>

\* a put, recorded with the number of index entries it evicted
StorePut ==
  \/ \E key \in TTSKeys, fault \in PutFaults :
       \E result \in ProviderAudio[key] :
         /\ saveToLocalStorage(key, result, fault)
         /\ last' = [op |-> "put",
                     evicted |-> Len(ttsPlan(key, fault).evicted)]
         /\ UNCHANGED <<geminiMaps, isolationRest>>
  \/ \E word \in Words, fault \in PutFaults :
       \E annotation \in ProviderAnnotation[word] :
         /\ saveAnnotationToCache(word, annotation, fault)
         /\ last' = [op |-> "put",
                     evicted |-> Len(annotationPlan(word, fault).evicted)]
         /\ UNCHANGED <<geminiMaps, isolationRest>>
  \/ \E key \in TTSKeys, fault \in PutFaults :
       \E result \in ProviderAudio[key] :
         /\ geminiSaveToLocalStorage(key, result, fault)
         /\ last' = [op |-> "put",
                     evicted |-> Len(indexPlan(geminiGetCacheIndex(fault),
                                               TextKeyOf[key],
                                               GEMINI_MAX_TTS_CACHE_SIZE).evicted)]
         /\ UNCHANGED isolationRest
  \/ \E word \in Words, fault \in PutFaults :
       \E annotation \in ProviderAnnotation[word] :
         /\ geminiSaveAnnotationToCache(word, annotation, fault)
         /\ last' = [op |-> "put",
                     evicted |-> Len(indexPlan(geminiGetAnnotationCacheIndex(fault),
                                               WordKeyOf[word],
                                               GEMINI_MAX_ANNOTATION_CACHE_SIZE).evicted)]
         /\ UNCHANGED isolationRest

StoreGet ==
  \/ \E key \in TTSKeys, fault \in AccessFaults :
       /\ getFromLocalStorage(key, fault)
       /\ last' = [op |-> "get"]
       /\ UNCHANGED <<geminiMaps, isolationRest>>
  \/ \E word \in Words, fault \in AccessFaults :
       /\ getAnnotationFromCache(word, fault)
       /\ last' = [op |-> "get"]
       /\ UNCHANGED <<geminiMaps, isolationRest>>
  \/ \E key \in TTSKeys, fault \in AccessFaults :
       /\ geminiGetFromLocalStorage(key, fault)
       /\ last' = [op |-> "get"]
       /\ UNCHANGED isolationRest
  \/ \E word \in Words, fault \in AccessFaults :
       /\ geminiGetAnnotationFromCache(word, fault)
       /\ last' = [op |-> "get"]
       /\ UNCHANGED isolationRest

StoreClear ==
  \/ \E fault \in AccessFaults :
       /\ clearTTSCache(fault)
       /\ last' = [op |-> "clear"]
       /\ UNCHANGED <<geminiMaps, isolationRest>>
  \/ \E fault \in AccessFaults :
       /\ clearAnnotationCache(fault)
       /\ last' = [op |-> "clear"]
       /\ UNCHANGED <<geminiMaps, isolationRest>>
  \/ \E fault \in AccessFaults :
       /\ geminiClearTTSCache(fault)
       /\ last' = [op |-> "clear"]
       /\ UNCHANGED isolationRest
  \/ \E fault \in AccessFaults :
       /\ geminiClearAnnotationCache(fault)
       /\ last' = [op |-> "clear"]
       /\ UNCHANGED isolationRest

StoreLedger ==
  \E r \in LedgerRequests, fault \in LedgerFaults :
    /\ \/ \E annotation \in LedgerAnnotation[r.word] :
            addLookedUpWord(r.text, r.word, annotation, fault)
       \/ /\ markWordCorrectResult(r.text, r.word, fault) <= MaxCorrectCount
          /\ markWordCorrect(r.text, r.word, fault)
       \/ resetWordProgress(r.text, r.word, fault)
       \/ clearWordData(r.text, fault)
    /\ last' = [op |-> "ledger"]
    /\ UNCHANGED <<geminiMaps, isolationRest>>

IsolationNext ==
  \/ StorePut
  \/ StoreGet
  \/ StoreClear
  \/ StoreLedger

IsolationSpec == IsolationInit /\ [][IsolationNext]_vars

(***************************************************************************)
(* C12: the key namespaces of the five stores (Gemini TTS, Gemini          *)
(* annotation, OpenAI TTS, OpenAI annotation, mastery ledger) are pairwise *)
(* disjoint, and no put, eviction, get or clear on one store overwrites,   *)
(* deletes or returns an entry of another: the durable records and the     *)
(* memory layer of every other store stay as they were.                    *)
(***************************************************************************)
\* the module-level Map of a store (the ledger has none)
MemoryOf(store) ==
  IF store = "tts" THEN memoryCache
  ELSE IF store = "annotation" THEN annotationMemoryCache
  ELSE IF store = "geminiTts" THEN geminiMemoryCache
  ELSE IF store = "geminiAnnotation" THEN geminiAnnotationMemoryCache
  ELSE EmptyMap

\* the keys of localStorage that lie in the namespace of a store
KeysOf(store) == { k \in DOMAIN localStorage : startsWith(k, PrefixOf(store)) }

\* every key the exercised store derives for an input of the model
DerivedKeys ==
  IF scope = "tts" THEN { CacheKeyOf[k] : k \in TTSKeys } \cup {TTS_CACHE_INDEX_KEY}
  ELSE IF scope = "annotation"
  THEN { AnnotationKeyOf[w] : w \in Words } \cup {ANNOTATION_CACHE_INDEX_KEY}
  ELSE IF scope = "geminiTts"
  THEN { GeminiCacheKeyOf[k] : k \in TTSKeys } \cup {GEMINI_TTS_CACHE_INDEX_KEY}
  ELSE IF scope = "geminiAnnotation"
  THEN { GeminiAnnotationKeyOf[w] : w \in Words }
         \cup {GEMINI_ANNOTATION_CACHE_INDEX_KEY}
  ELSE { LedgerKeyOf[t] : t \in LedgerTexts }

\* what the exercised store answers lookups with while it holds nothing
AnswersNothing ==
  IF scope = "tts"
  THEN \A k \in TTSKeys, g \in AccessFaults : getFromLocalStorageResult(k, g) = <<>>
  ELSE IF scope = "annotation"
  THEN \A w \in Words, g \in AccessFaults : getAnnotationFromCacheResult(w, g) = <<>>
  ELSE IF scope = "geminiTts"
  THEN \A k \in TTSKeys, g \in AccessFaults :
         geminiGetFromLocalStorageResult(k, g) = <<>>
  ELSE IF scope = "geminiAnnotation"
  THEN \A w \in Words, g \in AccessFaults :
         geminiGetAnnotationFromCacheResult(w, g) = <<>>
  ELSE \A t \in LedgerTexts, g \in LedgerFaults : getAllLookedUpWords(t, g) = <<>>

StoreIsolation ==
  /\ [](/\ \A a, b \in Stores :
             a # b => ~startsWith(PrefixOf(a), PrefixOf(b))
        /\ \A k \in DerivedKeys : startsWith(k, PrefixOf(scope))
        /\ (KeysOf(scope) = {} /\ MemoryOf(scope) = EmptyMap) => AnswersNothing)
  /\ [][ /\ \A k \in DOMAIN localStorage \cup DOMAIN localStorage' :
              startsWith(k, PrefixOf(scope))
                \/ ( /\ k \in DOMAIN localStorage
                     /\ k \in DOMAIN localStorage'
                     /\ localStorage'[k] = localStorage[k] )
         /\ \A store \in Stores \ {scope} : MemoryOf(store)' = MemoryOf(store)
       ]_vars

\* the exercised store has just evicted an entry, or has been cleared of
\* everything it held, next to the entries of the four other stores
StoreIsolationWitness ==
  /\ \/ last.op = "put" /\ last.evicted > 0
     \/ last.op = "clear" /\ ~thrown /\ KeysOf(scope) = {}
  /\ \A store \in Stores \ {scope} :
       /\ KeysOf(store) # {}
       /\ (store # "ledger" => MemoryOf(store) # EmptyMap)

(***************************************************************************)
(* C13: durable round trip across sessions: after a put(k, v) whose        *)
(* durable write succeeded, a get(k) in a later session (memory layer      *)
(* empty, durable store intact, k not evicted) returns a value equal to v, *)
(* for audio the same bytes and mimeType after base64 encode and decode,   *)
(* and populates the memory layer with it.                                 *)
(***************************************************************************)
\* the positions of the scenario at which logical key k was put
PutsOf(k) == { i \in 1..Len(trace) : trace[i].op = "put" /\ trace[i].key = k }

\* the position of the last put of k (0 when k was never put)
LastPutOf(k) ==
  IF PutsOf(k) = {} THEN 0
  ELSE CHOOSE i \in PutsOf(k) : \A j \in PutsOf(k) : j <= i

\* a session started after position i of the scenario
ReloadedSince(i) ==
  \E j \in (i + 1)..Len(trace) : trace[j].op = "reload"

DurableRoundTrip ==
  /\ [](\A k \in LogicalKeys :
          ( /\ LastPutOf(k) > 0
            /\ ReloadedSince(LastPutOf(k))
            /\ k \notin DOMAIN Memory
            /\ k \in SeqRange(IndexKeys) )
            => CacheGet(k, "none") = <<trace[LastPutOf(k)].value>>)
  /\ [][ ( /\ Len(trace') = Len(trace) + 1
           /\ trace'[Len(trace')].op = "get"
           /\ CacheGet(trace'[Len(trace')].key, "none") # <<>> )
           => /\ trace'[Len(trace')].key \in DOMAIN Memory'
              /\ <<Memory'[trace'[Len(trace')].key]>>
                   = CacheGet(trace'[Len(trace')].key, "none")
       ]_vars

(***************************************************************************)
(* The streak of one word: lookups, answers and clears of the word "cat"   *)
(* in one ledger while localStorage may be full, with the number of        *)
(* markWordCorrect calls since the entry was created or last reset counted *)
(* on the side.                                                            *)
(***************************************************************************)
StreakRequests == { r \in LedgerRequests : Len(r.text) = 2 /\ r.word[1] # "s" }

\* localStorage works, or is full (setItem throws QuotaExceededError)
StreakFaults == {"none", "quota"}

StreakLookUp ==
  \E r \in StreakRequests, fault \in StreakFaults :
    \E annotation \in LedgerAnnotation[r.word] :
      /\ addLookedUpWord(r.text, r.word, annotation, fault)
      /\ last' = [op |-> "add", text |-> r.text, word |-> r.word,
                  annotation |-> annotation]
      /\ marks' = IF EntryId(r.text, r.word) \notin DOMAIN marks /\ fault = "none"
                  THEN MapSet(marks, EntryId(r.text, r.word), 0)
                  ELSE marks
      /\ UNCHANGED drillRest

StreakRight ==
  \E r \in StreakRequests, fault \in StreakFaults :
    /\ markWordCorrectResult(r.text, r.word, fault) <= MaxCorrectCount
    /\ EntryId(r.text, r.word) \in DOMAIN marks
         => marks[EntryId(r.text, r.word)] < MaxCorrectCount
    /\ markWordCorrect(r.text, r.word, fault)
    /\ last' = [op |-> "mark", text |-> r.text, word |-> r.word,
                returned |-> markWordCorrectResult(r.text, r.word, fault)]
    /\ marks' = IF EntryId(r.text, r.word) \in DOMAIN marks
                THEN MapSet(marks, EntryId(r.text, r.word),
                            marks[EntryId(r.text, r.word)] + 1)
                ELSE marks
    /\ UNCHANGED drillRest

StreakWrong ==
  \E r \in StreakRequests, fault \in StreakFaults :
    /\ resetWordProgress(r.text, r.word, fault)
    /\ last' = [op |-> "reset", text |-> r.text, word |-> r.word]
    /\ marks' = IF EntryId(r.text, r.word) \in DOMAIN marks
                THEN MapSet(marks, EntryId(r.text, r.word), 0)
                ELSE marks
    /\ UNCHANGED drillRest

StreakForget ==
  \E r \in StreakRequests :
    /\ clearWordData(r.text, "none")
    /\ last' = [op |-> "clearWords", text |-> r.text]
    /\ marks' = MapDelete(marks, { id \in DOMAIN marks :
                                     id[1] = LedgerKeyOf[r.text] })
    /\ UNCHANGED drillRest

StreakNext ==
  \/ StreakLookUp
  \/ StreakRight
  \/ StreakWrong
  \/ StreakForget

StreakSpec == Init /\ [][StreakNext]_vars

(***************************************************************************)
(* C14: mastery progression: for every text and word, the entry's          *)
(* correctCount is always >= 0 and equals the number of markWordCorrect    *)
(* calls on that word since the later of its creation by addLookedUpWord   *)
(* and its last resetWordProgress; isWordMastered is true exactly when     *)
(* that count is >= 3, and every further mark keeps the word mastered.     *)
(***************************************************************************)
\* the persisted correctCount of the entry (text, word) addresses
CountOf(text, word) ==
  LET words == getAllLookedUpWords(text, "none")
  IN  words[findIndex(words, WordLowerOf[word])].correctCount

MasteryProgression ==
  \A r \in LedgerRequests :
    LET id == EntryId(r.text, r.word)
    IN  /\ hasEntry(loadWordData(r.text, "none"), r.word) <=> id \in DOMAIN marks
        /\ id \in DOMAIN marks =>
             /\ CountOf(r.text, r.word) >= 0
             /\ CountOf(r.text, r.word) = marks[id]
             /\ isWordMastered(r.text, r.word, "none")
                  <=> marks[id] >= MASTERY_THRESHOLD

(***************************************************************************)
(* C15: addLookedUpWord(text, word, annotation): if the lower-cased word   *)
(* is not in the text's ledger (creating the ledger if none exists) it     *)
(* appends an entry with correctCount = 0; if it is already present it     *)
(* replaces only that entry's annotation and leaves its correctCount       *)
(* unchanged, so re-looking-up a mastered word keeps it mastered.          *)
(***************************************************************************)
\* the words of the ledger of a text in a given content of localStorage
WordsIn(store, text) ==
  IF LedgerKeyOf[text] \in DOMAIN store
  THEN store[LedgerKeyOf[text]].value.words
  ELSE <<>>

LowerStr ==
  [x \in { Str(w) : w \in LedgerWords } |->
     Str(toLowerCase(CHOOSE w \in LedgerWords : Str(w) = x))]

UniqueByLowerCasedWord ==
  \A text \in LedgerTexts :
    LET words == getAllLookedUpWords(text, "none")
    IN  \A i, j \in 1..Len(words) :
          i # j => LowerStr[words[i].word] # LowerStr[words[j].word]

\* "Cat" has just been looked up in a ledger that held "cat" with a streak
\* and another word
UniqueByLowerCasedWordWitness ==
  /\ last.op = "add"
  /\ last.word = <<"C","a","t">>
  /\ LET words == getAllLookedUpWords(last.text, "none")
     IN  /\ Len(words) = 2
         /\ words[findIndex(words, "cat")].correctCount > 0

(***************************************************************************)
(* C17: missing-entry operations are silent no-ops: when the text has no   *)
(* ledger or the ledger has no entry for the word, markWordCorrect returns *)
(* 0, resetWordProgress returns normally and isWordMastered returns false; *)
(* none of them throws, creates a ledger or entry, or writes to the        *)
(* durable store.                                                          *)
(***************************************************************************)
MissingEntryNoOp ==
  /\ [](\A r \in LedgerRequests, fault \in LedgerFaults :
          ~hasEntry(loadWordData(r.text, "none"), r.word)
            => ~isWordMastered(r.text, r.word, fault))
  /\ [][ ( /\ last'.op \in {"mark", "reset"}
           /\ ~hasEntry(loadWordData(last'.text, "none"), last'.word) )
           => /\ localStorage' = localStorage
              /\ thrown' = FALSE
              /\ last'.op = "mark" => last'.returned = 0
       ]_vars

\* markWordCorrect has just returned 0 for a word that the existing ledger
\* of the text does not hold
MissingEntryNoOpWitness ==
  /\ last.op = "mark"
  /\ last.returned = 0
  /\ ~thrown
  /\ getAllLookedUpWords(last.text, "none") # <<>>
  /\ ~hasEntry(loadWordData(last.text, "none"), last.word)

Below3(words) == { i \in 1..Len(words) : words[i].correctCount < 3 }

\* the sequence holds an entry for the word
Lists(words, word) ==
  \E i \in 1..Len(words) : words[i].word = WordLowerOf[word]

UnmasteredView ==
  /\ getMasteryThreshold = 3
  /\ \A text \in LedgerTexts :
       LET all == getAllLookedUpWords(text, "none")
           un  == getUnmasteredWords(text, "none")
       IN  /\ Len(un) = Cardinality(Below3(all))
           /\ \A i \in 1..Len(un) :
                \E j \in Below3(all) :
                  /\ un[i] = all[j]
                  /\ Cardinality({ m \in Below3(all) : m <= j }) = i
           /\ LedgerKeyOf[text] \notin DOMAIN localStorage => un = <<>>
           /\ Below3(all) = {} => un = <<>>
           /\ \A w \in LedgerWords :
                (Lists(all, w) /\ ~Lists(un, w))
                  <=> isWordMastered(text, w, "none")

\* a ledger whose first word has just reached the threshold while its
\* second word has not
UnmasteredViewWitness ==
  /\ last.op = "mark"
  /\ last.returned = MASTERY_THRESHOLD
  /\ LET all == getAllLookedUpWords(last.text, "none")
     IN  /\ Len(all) = 2
         /\ all[1].word = WordLowerOf[last.word]
         /\ all[1].correctCount = MASTERY_THRESHOLD
         /\ Len(getUnmasteredWords(last.text, "none")) = 1

(***************************************************************************)
(* Two writers: two tabs of the application share localStorage.  A ledger  *)
(* mutation of a tab is two steps, the loadWordData of the record and the  *)
(* saveWordData of its mutated copy, and steps of the other tab may fall   *)
(* in between.                                                             *)
(***************************************************************************)
\* the largest correctCount the model lets a tab write
MaxWriterCount == 2

\* the (text, word) pairs the tabs work on: two words of one text
WriterRequests ==
  { r \in LedgerRequests :
      r.text = <<"A","a">> /\ r.word \in {<<"c","a","t">>, <<"s","a","t">>} }

\* mutation of the record as it is in localStorage at the time of the write
tabRecordReloaded(tab) ==
  LET loaded == loadWordData(tab.text, "none")
  IN  IF tab.op = "add"
      THEN addLookedUpWordData(loaded, tab.text, tab.word, tab.annotation)
      ELSE IF ~hasEntry(loaded, tab.word) THEN tab.data[1]
      ELSE IF tab.op = "mark" THEN markWordCorrectData(loaded[1], tab.word)
      ELSE resetWordProgressData(loaded[1], tab.word)

\* mutation of the record the tab loaded
tabRecord(tab) ==
  IF tab.op = "add"
  THEN addLookedUpWordData(tab.data, tab.text, tab.word, tab.annotation)
  ELSE IF tab.op = "mark" THEN markWordCorrectData(tab.data[1], tab.word)
  ELSE resetWordProgressData(tab.data[1], tab.word)

\* the state the tabs leave alone
tabsRest == <<memoryCache, annotationMemoryCache, scope, thrown, pending, trace,
              awaiting, served, geminiMemoryCache, geminiAnnotationMemoryCache,
              marks>>

\* loadWordData in addLookedUpWord, markWordCorrect or resetWordProgress;
\* the latter two return at once when the entry is missing
TabLoad ==
  \E t \in Tabs, r \in WriterRequests :
    /\ scope = "ledger"
    /\ tabs[t] = Idle
    /\ \/ tabs' = [tabs EXCEPT ![t] =
                       [pc |-> "loaded", op |-> "add", text |-> r.text,
                        word |-> r.word, annotation |-> Note2,
                        data |-> loadWordData(r.text, "none")]]
       \/ /\ hasEntry(loadWordData(r.text, "none"), r.word)
          /\ markWordCorrectResult(r.text, r.word, "none") <= MaxWriterCount
          /\ tabs' = [tabs EXCEPT ![t] =
                        [pc |-> "loaded", op |-> "mark", text |-> r.text,
                         word |-> r.word,
                         data |-> loadWordData(r.text, "none")]]
       \/ /\ hasEntry(loadWordData(r.text, "none"), r.word)
          /\ tabs' = [tabs EXCEPT ![t] =
                        [pc |-> "loaded", op |-> "reset", text |-> r.text,
                         word |-> r.word,
                         data |-> loadWordData(r.text, "none")]]
    /\ last' = [op |-> "load", tab |-> t]
    /\ UNCHANGED <<localStorage, tabsRest>>

\* saveWordData of the mutated copy
TabSave ==
  \E t \in Tabs :
    /\ scope = "ledger"
    /\ tabs[t] # Idle
    /\ localStorage' = saveWordData(tabRecord(tabs[t]), "none")
    /\ tabs' = [tabs EXCEPT ![t] = Idle]
    /\ last' = [op |-> "save", tab |-> t, kind |-> tabs[t].op,
                text |-> tabs[t].text, word |-> tabs[t].word,
                loaded |-> tabs[t].data,
                overwritten |-> loadWordData(tabs[t].text, "none")]
    /\ UNCHANGED tabsRest

TwoWritersNext ==
  \/ TabLoad
  \/ TabSave

TwoWritersSpec == Init /\ [][TwoWritersNext]_vars

(***************************************************************************)
(* C20: lost update under two writers: every ledger mutation is            *)
(* load-whole-record, mutate, write-whole-record, so when two writers      *)
(* sharing the durable store interleave these steps on the same text, one  *)
(* writer's update is lost: the record a writer saves holds its own change *)
(* on top of what it loaded, without the words the other writer looked up  *)
(* and without the correctCount increments the other writer applied since. *)
(***************************************************************************)
\* the words of a loaded record (none for null)
WordsOf(loaded) == IF loaded = <<>> THEN <<>> ELSE loaded[1].words

\* the correctCount a sequence of entries holds for the word
CountIn(words, word) == words[findIndex(words, WordLowerOf[word])].correctCount

LostUpdate ==
  last.op = "save" =>
    LET final == getAllLookedUpWords(last.text, "none")
        mine  == WordsOf(last.loaded)
        other == WordsOf(last.overwritten)
    IN  /\ Lists(final, last.word)
        /\ \A w \in LedgerWords :
             WordLowerOf[w] # WordLowerOf[last.word] =>
               /\ Lists(final, w) <=> Lists(mine, w)
               /\ Lists(final, w) => CountIn(final, w) = CountIn(mine, w)
        /\ last.kind = "mark" =>
             CountIn(final, last.word) = CountIn(mine, last.word) + 1
        /\ last.kind = "reset" => CountIn(final, last.word) = 0
        /\ (last.kind = "add" /\ Lists(mine, last.word)) =>
             CountIn(final, last.word) = CountIn(mine, last.word)
        /\ (last.kind = "add" /\ ~Lists(mine, last.word)) =>
             CountIn(final, last.word) = 0

\* a tab has just saved a correct answer for "cat" over a record in which
\* the other tab had counted its own correct answer for "cat" and had added
\* "sat": the count went up by one, not two, and "sat" is gone
LostUpdateWitness ==
  /\ last.op = "save"
  /\ last.kind = "mark"
  /\ LET final == getAllLookedUpWords(last.text, "none")
         mine  == WordsOf(last.loaded)
         other == WordsOf(last.overwritten)
     IN  /\ Lists(other, last.word)
         /\ CountIn(other, last.word) = CountIn(mine, last.word) + 1
         /\ CountIn(final, last.word) = CountIn(other, last.word)
         /\ \E w \in LedgerWords : Lists(other, w) /\ ~Lists(final, w)

(***************************************************************************)
(* C21: clearWordData(text) deletes the whole ledger record of that text,  *)
(* after which getAllLookedUpWords(text) is empty and isWordMastered(text, *)
(* w) is false for every w; it is idempotent (calling it again or for a    *)
(* text with no ledger does not throw and changes nothing) and leaves the  *)
(* ledgers of all other texts (those of another storage key) unchanged.    *)
(***************************************************************************)
ClearForgetsText ==
  /\ [](last.op = "clearWords" =>
          /\ ~thrown
          /\ LedgerKeyOf[last.text] \notin DOMAIN localStorage
          /\ getAllLookedUpWords(last.text, "none") = <<>>
          /\ \A w \in LedgerWords : ~isWordMastered(last.text, w, "none"))
  /\ [][ last'.op = "clearWords" =>
           /\ \A text \in LedgerTexts :
                LedgerKeyOf[text] # LedgerKeyOf[last'.text]
                  => WordsIn(localStorage', text) = WordsIn(localStorage, text)
           /\ LedgerKeyOf[last'.text] \notin DOMAIN localStorage
                => localStorage' = localStorage
       ]_vars

(***************************************************************************)
(* C22: provider failures pass through and store nothing: when the         *)
(* provider call made on a cache miss fails, fetchTTSAudio /               *)
(* fetchWordAnnotation rejects with that error (no retry, no suppression)  *)
(* and the memory layer, the durable records and the index are exactly as  *)
(* before the fetch.                                                       *)
(***************************************************************************)
ProviderFailurePassesThrough ==
  [][ /\ last'.op = "miss" =>
           /\ localStorage' = localStorage
           /\ Memory' = Memory
      /\ last'.op = "failed" =>
           /\ thrown'
           /\ localStorage' = localStorage
           /\ Memory' = Memory
           /\ BagSize(awaiting') = BagSize(awaiting) - 1
    ]_vars

\* the request for a key has just failed while the cache holds other keys
\* and nothing else awaits the provider
ProviderFailurePassesThroughWitness ==
  /\ last.op = "failed"
  /\ thrown
  /\ awaiting = EmptyMap
  /\ Len(IndexKeys) > 0
  /\ Memory # EmptyMap
  /\ last.key \notin DOMAIN Memory
  /\ CacheGet(last.key, "none") = <<>>

(***************************************************************************)
(* Spellings: fetchWordAnnotation called for the same words in different   *)
(* letter case and with surrounding whitespace, from different sentences   *)
(* and with different target languages.                                    *)
(***************************************************************************)
\* contextSentence and language of a call; neither reaches the cache
Contexts == {"The cat sat.", "A dog barked."}

Languages == {"zh", "en"}

SpellingFetch ==
  \E word \in SpellingWords, context \in Contexts, language \in Languages :
    LET cached == getAnnotationFromCacheResult(word, "none")
    IN  /\ cached = <<>> => BagSize(awaiting) < Cardinality(Callers)
        /\ fetchWordAnnotation(word, "sk-key", "none")
        /\ last' = IF cached # <<>>
                   THEN [op |-> "hit", word |-> word, context |-> context,
                         language |-> language, value |-> cached[1]]
                   ELSE [op |-> "miss", word |-> word, context |-> context,
                         language |-> language]
        /\ UNCHANGED <<served, fetchRest>>

SpellingAnswered ==
  \E word \in DOMAIN awaiting \cap SpellingWords, fault \in FetchPutFaults :
    \E annotation \in ProviderAnnotation[word] :
      /\ fetchWordAnnotationResume(word, <<JsonObject(annotation)>>, fault)
      /\ last' = [op |-> "stored", word |-> word,
                  value |-> JsonObject(annotation)]
      /\ UNCHANGED <<served, fetchRest>>

SpellingReload ==
  /\ scope = "annotation"
  /\ NewSession
  /\ awaiting' = EmptyMap
  /\ last' = NotAPut
  /\ UNCHANGED <<served, fetchRest>>

SpellingNext ==
  \/ SpellingFetch
  \/ SpellingAnswered
  \/ SpellingReload

SpellingSpec == Init /\ [][SpellingNext]_vars

(***************************************************************************)
(* C23: annotation lookups are keyed by the lower-cased, trimmed word      *)
(* only: for words w1, w2 with equal lowercase-trimmed form, put(w1, a)    *)
(* followed by get(w2) returns a, whatever the context sentence or target  *)
(* language passed to fetchWordAnnotation, and both share one index entry. *)
(***************************************************************************)
\* word.toLowerCase().trim() as a string
Normal(word) == Str(trim(toLowerCase(word)))

\* the spellings of the word
SameWord(word) == { w \in SpellingWords : Normal(w) = Normal(word) }

KeyedByNormalWord ==
  scope = "annotation" =>
    /\ \A w1 \in SpellingWords :
         /\ \A w2 \in SameWord(w1) :
              getAnnotationFromCacheResult(w2, "none")
                = getAnnotationFromCacheResult(w1, "none")
         /\ Cardinality({ i \in 1..Len(IndexItems) :
                            Normal(w1) = IndexItems[i].word }) <= 1
         /\ Cardinality({ i \in 1..Len(IndexItems) :
                            AnnotationKeyOf[w1] = IndexItems[i].key }) <= 1
    /\ last.op \in {"stored", "hit"} =>
         \A w2 \in SameWord(last.word) :
           getAnnotationFromCacheResult(w2, "none") = <<last.value>>

\* "cat" has just been answered from the cache with what an earlier fetch
\* of another spelling stored, for another sentence, while two words are
\* indexed
KeyedByNormalWordWitness ==
  /\ last.op = "hit"
  /\ last.word = <<"c","a","t">>
  /\ last.context = "A dog barked."
  /\ last.language = "en"
  /\ last.value = JsonObject(Note2)
  /\ Len(IndexItems) = MAX_ANNOTATION_CACHE_SIZE
  /\ \E i \in 1..Len(IndexItems) : IndexItems[i].word = "cat"
  /\ DOMAIN annotationMemoryCache = {"cat"}

(***************************************************************************)
(* The content hash on its own: a text is typed character by character and *)
(* hashed by the three copies of the loop (ledger, Gemini TTS, OpenAI TTS).*)
(***************************************************************************)
\* the longest text typed
MaxTextLen == 7

\* a space, an upper-case and a lower-case letter and the underscore
HashAlphabet == {" ", "A", "z", "_"}

HashInit ==
  /\ scope = "hash"
  /\ trace = <<>>
  /\ last = [op |-> "none"]
  /\ localStorage = EmptyMap
  /\ memoryCache = EmptyMap
  /\ annotationMemoryCache = EmptyMap
  /\ geminiMemoryCache = EmptyMap
  /\ geminiAnnotationMemoryCache = EmptyMap
  /\ thrown = FALSE
  /\ pending = EmptyMap
  /\ awaiting = EmptyMap
  /\ served = {}
  /\ marks = EmptyMap
  /\ tabs = [t \in Tabs |-> Idle]

\* the state hashing leaves alone
hashRest == <<localStorage, memoryCache, annotationMemoryCache,
              geminiMemoryCache, geminiAnnotationMemoryCache, thrown, scope,
              pending, awaiting, served, marks, tabs>>

TypeCharacter ==
  \E c \in HashAlphabet :
    /\ Len(trace) < MaxTextLen
    /\ trace' = Append(trace, c)
    /\ last' = [op |-> "typed"]
    /\ UNCHANGED hashRest

\* hashText(text), getCacheKey(text) of the OpenAI service and getCacheKey(text)
\* of the Gemini service, called twice each
HashText ==
  /\ last.op # "hashed"
  /\ last' = [op |-> "hashed", text |-> trace,
              ledger |-> hashText(trace),
              openai |-> getCacheKey(trace),
              gemini |-> geminiGetCacheKey(trace),
              again  |-> <<hashText(trace), getCacheKey(trace),
                           geminiGetCacheKey(trace)>>]
  /\ UNCHANGED <<trace, hashRest>>

HashNext ==
  \/ TypeCharacter
  \/ HashText

HashSpec == HashInit /\ [][HashNext]_vars

(***************************************************************************)
(* C24: the content hash is a deterministic function of the trimmed input: *)
(* for every string s (including the empty string), hashText(s) and the    *)
(* hash part of getCacheKey(s) equal the base-36 rendering of the absolute *)
(* value of the signed 32-bit result of folding                            *)
(* h := (h*31 + charCode) mod 2^32 over the characters of trim(s) starting *)
(* from 0; the three copies (ledger, Gemini TTS, OpenAI TTS) agree on      *)
(* every input.                                                            *)
(***************************************************************************)
\* (h * 31 + code) mod 2^32 on a word <<hi, lo>>
Times31Plus(h, code) ==
  LET lo == h[2] * 31 + code
      hi == h[1] * 31 + (lo \div Half)
  IN  <<hi % Half, lo % Half>>

RECURSIVE Fold31(_, _)
Fold31(h, s) ==
  IF s = <<>> THEN h ELSE Fold31(Times31Plus(h, charCodeAt(Head(s))), Tail(s))

\* the sum of two words mod 2^32
Plus32(a, b) ==
  LET lo == a[2] + b[2]
  IN  <<(a[1] + b[1] + (lo \div Half)) % Half, lo % Half>>

\* the number a base-36 numeral stands for, as a word
RECURSIVE Value36(_, _)
Value36(v, numeral) ==
  IF numeral = "" THEN v
  ELSE LET d  == IndexIn(SubSeq(numeral, 1, 1), Digits36) - 1
           lo == v[2] * 36 + d
       IN  Value36(<<v[1] * 36 + (lo \div Half), lo % Half>>,
                   SubSeq(numeral, 2, Len(numeral)))

HashIsFold31 ==
  last.op = "hashed" =>
    LET h == Fold31(<<0, 0>>, trim(last.text))
        a == Value36(<<0, 0>>, last.ledger)
    IN  /\ Len(last.ledger) >= 1
        /\ Len(last.ledger) > 1 => SubSeq(last.ledger, 1, 1) # "0"
        /\ a[1] <= 32768
        /\ a[1] = 32768 => a[2] = 0
        /\ h[1] < 32768 => a = h
        /\ h[1] >= 32768 => Plus32(a, h) = <<0, 0>>
        /\ last.openai = TTS_CACHE_PREFIX \o last.ledger
        /\ last.gemini = GEMINI_TTS_CACHE_PREFIX \o last.ledger
        /\ last.again = <<last.ledger, last.openai, last.gemini>>
        /\ last.ledger = hashText(trim(last.text))
        /\ trim(last.text) = <<>> => last.ledger = "0"

\* a text with leading whitespace whose fold has the sign bit set
HashIsFold31Witness ==
  /\ last.op = "hashed"
  /\ Len(last.text) >= 6
  /\ Head(last.text) = " "
  /\ Fold31(<<0, 0>>, trim(last.text))[1] >= 32768
  /\ Len(last.ledger) = 6

(***************************************************************************)
(* C25: no cross-key answers from the TTS cache: in every reachable state, *)
(* including a new session with an empty memory layer, get(k) returns      *)
(* either absent or the value most recently put under logical key k, never *)
(* a value that was put under a different logical key (also when two       *)
(* logical keys hash to the same storage key).                             *)
(***************************************************************************)
NoCrossKeyAnswers ==
  scope = "tts" =>
    \A k \in LogicalKeys :
      \/ CacheGet(k, "none") = <<>>
      \/ /\ LastPutOf(k) > 0
         /\ CacheGet(k, "none") = <<trace[LastPutOf(k)].value>>

(***************************************************************************)
(* C26: the index key of a cache is never the storage key of one of its    *)
(* entries: for every logical key (every word, every text/voice pair) the  *)
(* derived storage key (prefix + lower-cased word, or prefix + base-36     *)
(* hash) differs from that cache's index key, so storing or evicting an    *)
(* entry never overwrites or deletes the index and reading an entry never  *)
(* returns the index.                                                      *)
(***************************************************************************)
\* what localStorage holds under the index key of the cache in scope
IndexRecord ==
  IF IndexKey \in DOMAIN localStorage THEN <<localStorage[IndexKey]>> ELSE <<>>

IndexKeyApart ==
  /\ [](\A i \in 1..Len(trace) :
          trace[i].op \in {"put", "get"} => StorageKey(trace[i].key) # IndexKey)
  /\ [](\A i \in 1..Len(IndexItems) : IndexItems[i].key # IndexKey)
  /\ [](IndexRecord # <<>> => IndexRecord[1].kind = "array")
  /\ [][IndexRecord # <<>> => IndexRecord' # <<>>]_vars

(***************************************************************************)
(* C27: a put whose durable write fails leaves the durable layer as it     *)
(* was: when localStorage.setItem throws while storing the new record, the *)
(* persisted index and every previously stored durable record are          *)
(* unchanged and no other key's memory-layer entry has been removed (only  *)
(* the new key's memory entry is added).                                   *)
(***************************************************************************)
\* memory layer after is memory layer before with value v under key k
OnlyAdded(before, after, k, v) ==
  /\ DOMAIN after = DOMAIN before \cup {k}
  /\ after[k] = v
  /\ \A other \in DOMAIN before \ {k} : after[other] = before[other]

FailedPutKeepsDurable ==
  /\ [][\A key \in TTSKeys : \A result \in ProviderAudio[key] :
          (last'.op = "put" /\ saveToLocalStorage(key, result, "entryQuota"))
            => /\ localStorage' = localStorage
               /\ OnlyAdded(memoryCache, memoryCache', TextKeyOf[key], result)
       ]_vars
  /\ [][\A word \in Words : \A annotation \in ProviderAnnotation[word] :
          ( /\ last'.op = "put"
            /\ saveAnnotationToCache(word, annotation, "entryQuota") )
            => /\ localStorage' = localStorage
               /\ OnlyAdded(annotationMemoryCache, annotationMemoryCache',
                            WordKeyOf[word], JsonObject(annotation))
       ]_vars

(***************************************************************************)
(* C28: the count returned by markWordCorrect(text, word) always equals    *)
(* the correctCount persisted for that word afterwards, i.e. the value a   *)
(* following getAllLookedUpWords(text) or isWordMastered(text, word) is    *)
(* computed from, also when the write of the ledger record to the durable  *)
(* store fails.                                                            *)
(***************************************************************************)
ReturnedCountIsPersisted ==
  (last.op = "mark" /\ hasEntry(loadWordData(last.text, "none"), last.word))
    => /\ last.returned = CountOf(last.text, last.word)
       /\ isWordMastered(last.text, last.word, "none")
            <=> last.returned >= MASTERY_THRESHOLD

(***************************************************************************)
(* C29: at most one provider request per logical key is outstanding at any *)
(* time: when a second fetchTTSAudio / fetchWordAnnotation for the same    *)
(* key starts while the first is still awaiting the provider (for example  *)
(* the next-sentence preload and the playback of that sentence), the       *)
(* second does not invoke the provider again, and after both complete the  *)
(* index holds a single entry for the key.                                 *)
(***************************************************************************)
OneRequestPerKey ==
  /\ \A k \in DOMAIN awaiting : awaiting[k] <= 1
  /\ Distinct(IndexKeys)

(***************************************************************************)
(* C30: ledger mutations touch only their target: addLookedUpWord,         *)
(* markWordCorrect and resetWordProgress on (text, word) never remove an   *)
(* entry and leave the word, annotation and correctCount of every other    *)
(* entry of that text's ledger unchanged, and leave the ledger of every    *)
(* text with a different hash untouched; two texts that differ only in     *)
(* leading or trailing whitespace address the same ledger.                 *)
(***************************************************************************)
\* store b holds under every key but k what store a holds
SameButKey(a, b, k) ==
  /\ DOMAIN b \ {k} = DOMAIN a \ {k}
  /\ \A other \in DOMAIN a \ {k} : b[other] = a[other]

TouchesOnlyTarget ==
  /\ [][ last'.op \in {"add", "mark", "reset"} =>
           LET before == WordsIn(localStorage, last'.text)
               after  == WordsIn(localStorage', last'.text)
               lower  == WordLowerOf[last'.word]
           IN  /\ Len(after) >= Len(before)
               /\ \A j \in 1..Len(before) :
                    /\ after[j].word = before[j].word
                    /\ before[j].word # lower => after[j] = before[j]
               /\ \A j \in (Len(before) + 1)..Len(after) : after[j].word = lower
               /\ LedgerKeyOf[last'.text] \in DOMAIN localStorage
                    => LedgerKeyOf[last'.text] \in DOMAIN localStorage'
               /\ SameButKey(localStorage, localStorage', LedgerKeyOf[last'.text])
               /\ \A t \in LedgerTexts :
                    HashOf[t] # HashOf[last'.text] =>
                      WordsIn(localStorage', t) = WordsIn(localStorage, t)
       ]_vars
  /\ [](\A t1, t2 \in LedgerTexts :
          trim(t1) = trim(t2) =>
            /\ LedgerKeyOf[t1] = LedgerKeyOf[t2]
            /\ getAllLookedUpWords(t1, "none") = getAllLookedUpWords(t2, "none"))

\* an answer given under " Aa" has raised the count of one of the two words
\* looked up under "Aa", while "the cat" has a ledger of its own
TouchesOnlyTargetWitness ==
  /\ last.op = "mark"
  /\ last.text = <<" ", "A", "a">>
  /\ last.returned = 2
  /\ LET words == getAllLookedUpWords(<<"A", "a">>, "none")
     IN  /\ Len(words) = 2
         /\ words[findIndex(words, WordLowerOf[last.word])].correctCount = 2
         /\ \E j \in 1..2 : words[j].correctCount = 0
  /\ getAllLookedUpWords(<<"t","h","e"," ","c","a","t">>, "none") # <<>>

====
